---- MODULE Spec2Model ----
(***************************************************************************)
(* Formula engine of wolfxl.calc: the dependency graph (_graph.py), the    *)
(* reference extraction that feeds it (_parser.py) and the workbook        *)
(* evaluator (_evaluator.py: load, calculate, recalculate).                *)
(*                                                                         *)
(* Encoding.  One sheet, one column: cell k stands for "Sheet1!A<k>".      *)
(* A formula text is a record [op, a, b]:                                  *)
(*   ref    "=A<a>"               offset "=OFFSET(A<a>,1,0)"               *)
(*   sum    "=SUM(A<a>:A<b>)"     (a view holds sums of two adjacent rows) *)
(*   unknown  "=NOSUCH(A<a>)"     badrange "=SUM(A<a>:A<a>:A<a>)"          *)
(* A cell value is a record [k, n, f]: a number n, None, or a string that  *)
(* is the formula text f (what the store holds for a formula cell before   *)
(* it is evaluated).                                                       *)
(* The optional `formulas` package is taken as not installed               *)
(* (_use_formulas = False), and the workbook has no defined names.         *)
(***************************************************************************)
EXTENDS Integers, Sequences, FiniteSets, TLC

\* ---------------------------------------------------------------- bounds
MaxRow == 3          \* rows of column A that a workbook view holds
MaxLoads == 1        \* load calls explored in one process
MaxCalls == 2        \* calculate/recalculate calls explored after a load
MaxRecalcs == 1      \* recalculate calls among them
MaxPerturbed == 2    \* cells one perturbation map names
MaxValue == 2        \* literals and perturbation values are 1..MaxValue
MaxTolerance == 1    \* tolerances are 0..MaxTolerance
MaxAdds == 3         \* add_formula calls explored on a graph used on its own

Cells == 1..MaxRow

\* ---------------------------------------------------------------- values
NoFormula == [op |-> "none", a |-> 0, b |-> 0]
None == [k |-> "none", n |-> 0, f |-> NoFormula]
Num(n) == [k |-> "num", n |-> n, f |-> NoFormula]
Text(f) == [k |-> "text", n |-> 0, f |-> f]

RefF(a) == [op |-> "ref", a |-> a, b |-> 0]
SumF(a, b) == [op |-> "sum", a |-> a, b |-> b]
OffsetF(a) == [op |-> "offset", a |-> a, b |-> 0]
\* "=NOSUCH(A<a>)": a function the registry does not hold
UnknownF(a) == [op |-> "unknown", a |-> a, b |-> 0]
\* "=SUM(A<a>:A<a>:A<a>)": a range argument with two colons
BadRangeF(a) == [op |-> "badrange", a |-> a, b |-> 0]
\* not a value: the ValueError of expand_range leaving _evaluate_formula
Raised == [k |-> "raise", n |-> 0, f |-> NoFormula]

\* the formula texts a workbook view may hold
FormulaTexts ==
    {RefF(a) : a \in Cells}
    \cup {SumF(a, a + 1) : a \in 1..(MaxRow - 1)}
    \cup {OffsetF(a) : a \in Cells}

\* set(...) iterated in hash order: the list of S in the order perm fixes
ListOf(S, perm) == SelectSeq(perm, LAMBDA x : x \in S)

Perms(S) == {p \in [1..Cardinality(S) -> S] : \A i, j \in DOMAIN p : p[i] = p[j] => i = j}

Range(s) == {s[i] : i \in DOMAIN s}

\* dict.get(key, default)
DictGet(d, key, default) == IF key \in DOMAIN d THEN d[key] ELSE default

\* d[key] = value
DictSet(d, key, value) == [x \in DOMAIN d \cup {key} |-> IF x = key THEN value ELSE d[x]]

Min2(x, y) == IF x < y THEN x ELSE y
Max2(x, y) == IF x > y THEN x ELSE y

\* ---------------------------------------------------------------- _parser.py
\* expand_range: the rows from the smaller corner to the larger, ascending
expand_range(a, b) == [i \in 1..(Max2(a, b) - Min2(a, b) + 1) |-> Min2(a, b) + i - 1]

\* all_references: single refs first, then the expanded ranges, deduplicated
all_references(formula) ==
    CASE formula.op = "ref" -> <<formula.a>>
      [] formula.op = "offset" -> <<formula.a>>
      [] formula.op = "sum" -> expand_range(formula.a, formula.b)
      [] formula.op = "unknown" -> <<formula.a>>
      [] formula.op = "badrange" -> <<formula.a>>
      [] OTHER -> <<>>

\* ---------------------------------------------------------------- _graph.py
EmptyDict == [x \in {} |-> {}]
EmptyGraph == [dependencies |-> EmptyDict, dependents |-> EmptyDict, formulas |-> EmptyDict]

RECURSIVE AddDependents(_, _, _)
AddDependents(dependents, refs, cell_ref) ==
    IF refs = <<>> THEN dependents
    ELSE AddDependents(
             DictSet(dependents, Head(refs), DictGet(dependents, Head(refs), {}) \cup {cell_ref}),
             Tail(refs), cell_ref)

add_formula(g, cell_ref, formula) ==
    LET refs == all_references(formula) IN
    [formulas |-> DictSet(g.formulas, cell_ref, formula),
     dependencies |-> DictSet(g.dependencies, cell_ref, Range(refs)),
     dependents |-> AddDependents(g.dependents, refs, cell_ref)]

\* variant: counts every dependency, literal cells included
in_degree_of_all_dependencies(g, cell) == Cardinality(DictGet(g.dependencies, cell, {}))

in_degree_of(g, cell) == Cardinality(DictGet(g.dependencies, cell, {}) \cap DOMAIN g.formulas)

RECURSIVE ReduceInDegree(_, _, _, _)
ReduceInDegree(deps, in_degree, queue, formula_cells) ==
    IF deps = <<>> THEN [in_degree |-> in_degree, queue |-> queue]
    ELSE LET dep == Head(deps) IN
         IF dep \in formula_cells
         THEN LET lowered == [in_degree EXCEPT ![dep] = @ - 1] IN
              ReduceInDegree(Tail(deps), lowered,
                             IF lowered[dep] = 0 THEN Append(queue, dep) ELSE queue,
                             formula_cells)
         ELSE ReduceInDegree(Tail(deps), in_degree, queue, formula_cells)

RECURSIVE KahnLoop(_, _, _, _, _)
KahnLoop(g, perm, queue, order, in_degree) ==
    IF queue = <<>> THEN order
    ELSE LET cell == Head(queue)
             r == ReduceInDegree(ListOf(DictGet(g.dependents, cell, {}), perm),
                                 in_degree, Tail(queue), DOMAIN g.formulas)
         IN KahnLoop(g, perm, r.queue, Append(order, cell), r.in_degree)

\* variant: returns what Kahn's loop produced without comparing its length
topological_order_unchecked(g, perm) ==
    LET formula_cells == DOMAIN g.formulas
        in_degree == [cell \in formula_cells |-> in_degree_of(g, cell)]
        queue == ListOf({cell \in formula_cells : in_degree[cell] = 0}, perm)
    IN [ok |-> TRUE, order |-> KahnLoop(g, perm, queue, <<>>, in_degree), missing |-> {}]

\* [ok, order, missing]: ok = FALSE is the ValueError "Circular reference detected"
topological_order(g, perm) ==
    LET formula_cells == DOMAIN g.formulas
        in_degree == [cell \in formula_cells |-> in_degree_of(g, cell)]
        queue == ListOf({cell \in formula_cells : in_degree[cell] = 0}, perm)
        order == KahnLoop(g, perm, queue, <<>>, in_degree)
    IN IF formula_cells = {} THEN [ok |-> TRUE, order |-> <<>>, missing |-> {}]
       ELSE IF Len(order) # Cardinality(formula_cells)
            THEN [ok |-> FALSE, order |-> <<>>, missing |-> formula_cells \ Range(order)]
            ELSE [ok |-> TRUE, order |-> order, missing |-> {}]

RECURSIVE VisitDependents(_, _, _, _, _)
VisitDependents(deps, visited, queue, affected, formulas) ==
    IF deps = <<>> THEN [visited |-> visited, queue |-> queue, affected |-> affected]
    ELSE LET dep == Head(deps) IN
         IF dep \notin visited
         THEN VisitDependents(Tail(deps), visited \cup {dep}, Append(queue, dep),
                              IF dep \in DOMAIN formulas THEN affected \cup {dep} ELSE affected,
                              formulas)
         ELSE VisitDependents(Tail(deps), visited, queue, affected, formulas)

RECURSIVE AffectedLoop(_, _, _, _, _)
AffectedLoop(g, perm, queue, visited, affected) ==
    IF queue = <<>> THEN affected
    ELSE LET r == VisitDependents(ListOf(DictGet(g.dependents, Head(queue), {}), perm),
                                  visited, Tail(queue), affected, g.formulas)
         IN AffectedLoop(g, perm, r.queue, r.visited, r.affected)

\* variant: returns the whole topological order
affected_cells_unfiltered(g, changed_cells, perm) ==
    LET full_order == topological_order(g, perm)
    IN [ok |-> full_order.ok,
        cells |-> full_order.order,
        order |-> full_order.order,
        missing |-> full_order.missing]

\* variant: the visited set starts empty instead of holding the changed cells
affected_cells_unseeded(g, changed_cells, perm) ==
    LET affected == AffectedLoop(g, perm, ListOf(changed_cells, perm), {}, {})
        full_order == topological_order(g, perm)
    IN [ok |-> full_order.ok,
        cells |-> SelectSeq(full_order.order, LAMBDA c : c \in affected),
        order |-> full_order.order,
        missing |-> full_order.missing]

\* [ok, cells, order, missing]: ok = FALSE when topological_order raises;
\* order is the full_order the result is filtered from
affected_cells(g, changed_cells, perm) ==
    LET affected == AffectedLoop(g, perm, ListOf(changed_cells, perm), changed_cells, {})
        full_order == topological_order(g, perm)
    IN [ok |-> full_order.ok,
        cells |-> SelectSeq(full_order.order, LAMBDA c : c \in affected),
        order |-> full_order.order,
        missing |-> full_order.missing]

\* variant: a cell keeps the depth of its first visit
RECURSIVE DeepenDependents_first_visit(_, _, _, _, _, _)
DeepenDependents_first_visit(deps, current_depth, depth, max_d, queue, formulas) ==
    IF deps = <<>> THEN [depth |-> depth, max_d |-> max_d, queue |-> queue]
    ELSE LET dep == Head(deps)
             new_depth == current_depth + 1
         IN IF dep \in DOMAIN formulas /\ dep \notin DOMAIN depth
            THEN DeepenDependents_first_visit(Tail(deps), current_depth,
                                              DictSet(depth, dep, new_depth),
                                              Max2(max_d, new_depth), Append(queue, dep), formulas)
            ELSE DeepenDependents_first_visit(Tail(deps), current_depth, depth, max_d, queue,
                                              formulas)

\* the while loop of max_depth runs forever once a depth exceeds the number of
\* formula cells (a chain that long repeats a cell, and every pass round the
\* repeated cell raises its depth again): diverged stands for that outcome
RECURSIVE DeepenDependents(_, _, _, _, _, _)
DeepenDependents(deps, current_depth, depth, max_d, queue, formulas) ==
    IF deps = <<>> THEN [depth |-> depth, max_d |-> max_d, queue |-> queue]
    ELSE LET dep == Head(deps)
             new_depth == current_depth + 1
         IN IF dep \in DOMAIN formulas /\ (dep \notin DOMAIN depth \/ new_depth > depth[dep])
            THEN DeepenDependents(Tail(deps), current_depth, DictSet(depth, dep, new_depth),
                                  Max2(max_d, new_depth), Append(queue, dep), formulas)
            ELSE DeepenDependents(Tail(deps), current_depth, depth, max_d, queue, formulas)

RECURSIVE DepthLoop(_, _, _, _, _)
DepthLoop(g, perm, queue, depth, max_d) ==
    IF queue = <<>> THEN [diverged |-> FALSE, max_d |-> max_d]
    ELSE IF max_d > Cardinality(DOMAIN g.formulas) THEN [diverged |-> TRUE, max_d |-> max_d]
    ELSE LET cell == Head(queue)
             r == DeepenDependents(ListOf(DictGet(g.dependents, cell, {}), perm),
                                   depth[cell], depth, max_d, Tail(queue), g.formulas)
         IN DepthLoop(g, perm, r.queue, r.depth, r.max_d)

\* [diverged, max_d]
max_depth(g, roots, perm) ==
    IF roots = {} THEN [diverged |-> FALSE, max_d |-> 0]
    ELSE DepthLoop(g, perm, ListOf(roots, perm), [r \in roots |-> 0], 0)

\* ---------------------------------------------------------------- _functions.py
\* _coerce_numeric + sum: None and strings are skipped
RECURSIVE builtin_sum(_)
builtin_sum(values) ==
    IF values = <<>> THEN 0
    ELSE (IF Head(values).k = "num" THEN Head(values).n ELSE 0) + builtin_sum(Tail(values))

\* ---------------------------------------------------------------- _evaluator.py
\* _resolve_cell_ref: self._cell_values.get(ref)
resolve_cell_ref(cell_values, ref) == DictGet(cell_values, ref, None)

\* _resolve_range_2d: the values of the expanded range, row-major
resolve_range(cell_values, a, b) ==
    LET cells == expand_range(a, b) IN
    [i \in DOMAIN cells |-> resolve_cell_ref(cell_values, cells[i])]

\* _evaluate_formula -> _eval_expr with the dispatch each formula text takes:
\*   "=A<a>"              step 8, the cell reference
\*   "=SUM(A<a>:A<b>)"    step 3, SUM over the RangeValue of the argument
\*   "=OFFSET(A<a>,1,0)"  step 3, raw-args: eval_fn of the cell one row below
evaluate_formula(cell_values, formula) ==
    CASE formula.op = "ref" -> resolve_cell_ref(cell_values, formula.a)
      [] formula.op = "sum" -> Num(builtin_sum(resolve_range(cell_values, formula.a, formula.b)))
      [] formula.op = "offset" -> resolve_cell_ref(cell_values, formula.a + 1)
      [] formula.op = "unknown" -> None
      [] formula.op = "badrange" -> Raised
      [] OTHER -> None

Abs(x) == IF x < 0 THEN -x ELSE x

values_differ(a, b, tolerance) ==
    IF a.k = "none" /\ b.k = "none" THEN FALSE
    ELSE IF a.k = "none" \/ b.k = "none" THEN TRUE
    ELSE IF a.k = "num" /\ b.k = "num" THEN Abs(a.n - b.n) > tolerance
    ELSE a # b

\* the loops of calculate and recalculate: evaluate, write back, next; an
\* exception leaving _evaluate_formula ends the loop with the store as it is
RECURSIVE EvaluateInOrder(_, _, _)
EvaluateInOrder(order, cell_values, formulas) ==
    IF order = <<>> THEN cell_values
    ELSE LET value == evaluate_formula(cell_values, formulas[Head(order)]) IN
         IF value = Raised THEN cell_values
         ELSE EvaluateInOrder(Tail(order), DictSet(cell_values, Head(order), value), formulas)

\* whether that loop is left by an exception
RECURSIVE EvaluationRaises(_, _, _)
EvaluationRaises(order, cell_values, formulas) ==
    IF order = <<>> THEN FALSE
    ELSE LET value == evaluate_formula(cell_values, formulas[Head(order)]) IN
         IF value = Raised THEN TRUE
         ELSE EvaluationRaises(Tail(order), DictSet(cell_values, Head(order), value), formulas)

\* [deltas, propagated]: the "Build deltas" loop of recalculate
RECURSIVE BuildDeltas(_, _, _, _, _)
BuildDeltas(affected, old_values, cell_values, formulas, tolerance) ==
    IF affected = <<>> THEN [deltas |-> <<>>, propagated |-> 0]
    ELSE LET cell_ref == Head(affected)
             old_val == DictGet(old_values, cell_ref, None)
             new_val == DictGet(cell_values, cell_ref, None)
             rest == BuildDeltas(Tail(affected), old_values, cell_values, formulas, tolerance)
         IN IF values_differ(old_val, new_val, tolerance)
            THEN [deltas |-> <<[cell_ref |-> cell_ref, old_value |-> old_val,
                                new_value |-> new_val,
                                formula |-> DictGet(formulas, cell_ref, NoFormula)]>>
                             \o rest.deltas,
                  propagated |-> rest.propagated + 1]
            ELSE rest

\* ---------------------------------------------------------------- state
VARIABLES
    cell_values,    \* WorkbookEvaluator._cell_values
    dependencies,   \* DependencyGraph.dependencies
    dependents,     \* DependencyGraph.dependents
    formulas,       \* DependencyGraph.formulas
    loaded,         \* WorkbookEvaluator._loaded
    hash_order,     \* the iteration order this process gives to a set of cell refs
    loads,          \* load calls so far
    calls,          \* calculate/recalculate calls since the last load
    recalcs,        \* recalculate calls since the last load
    res             \* the last call: what it was given, what it returned or raised

vars == <<cell_values, dependencies, dependents, formulas, loaded, hash_order, loads, calls, recalcs, res>>

Graph == [dependencies |-> dependencies, dependents |-> dependents, formulas |-> formulas]

\* a workbook view: every cell holds the literal 1 or a formula text
Views == [Cells -> {Num(1)} \cup {Text(f) : f \in FormulaTexts}]

PerturbationValues == {Num(v) : v \in 1..MaxValue}
\* a perturbation map gives one new value to at most MaxPerturbed cells
PerturbationMaps ==
    {[c \in S |-> v] : S \in {T \in SUBSET Cells : Cardinality(T) <= MaxPerturbed},
                        v \in PerturbationValues}
Tolerances == 0..MaxTolerance

NoResult ==
    [op |-> "none", status |-> "ok", prev_op |-> "none", prev_status |-> "ok",
     before |-> EmptyDict, perturbations |-> EmptyDict,
     tolerance |-> 0, order |-> <<>>, missing |-> {}, results |-> EmptyDict,
     affected |-> <<>>, deltas |-> <<>>, total_formula_cells |-> 0,
     propagated_cells |-> 0, max_chain_depth |-> 0, max_depth_calls |-> 0,
     roots |-> {}, iterations |-> 0]

Init ==
    /\ cell_values = EmptyDict
    /\ dependencies = EmptyDict
    /\ dependents = EmptyDict
    /\ formulas = EmptyDict
    /\ loaded = FALSE
    /\ hash_order \in Perms(Cells)
    /\ loads = 0
    /\ calls = 0
    /\ recalcs = 0
    /\ res = NoResult

\* the workbook's defined names: none
NoNamedRanges == EmptyDict

\* add_formula as load calls it, with the keyword named_ranges (None when the
\* workbook defines no names): the registration add_formula makes
add_formula_with_names(g, cell_ref, formula, named_ranges) == add_formula(g, cell_ref, formula)

\* the cell loop of load: formula cells are registered in the graph
RECURSIVE LoadCells(_, _, _)
LoadCells(cells, view, g) ==
    IF cells = <<>> THEN g
    ELSE LET val == view[Head(cells)] IN
         LoadCells(Tail(cells), view,
                   IF val.k = "text"
                   THEN add_formula_with_names(g, Head(cells), val.f, NoNamedRanges)
                   ELSE g)

\* variant: load without clearing what the store held
Load_without_clear(view) ==
    LET g == LoadCells([i \in 1..MaxRow |-> i], view, EmptyGraph) IN
    /\ loads < MaxLoads
    /\ loads' = loads + 1
    /\ cell_values' = [c \in DOMAIN cell_values \cup {x \in Cells : view[x] # None} |->
                           IF view[c] # None THEN view[c] ELSE cell_values[c]]
    /\ dependencies' = g.dependencies
    /\ dependents' = g.dependents
    /\ formulas' = g.formulas
    /\ loaded' = TRUE
    /\ calls' = 0
    /\ recalcs' = 0
    /\ res' = [NoResult EXCEPT !.op = "load"]
    /\ UNCHANGED hash_order


Load(view) ==
    LET g == LoadCells([i \in 1..MaxRow |-> i], view, EmptyGraph) IN
    /\ loads < MaxLoads
    /\ loads' = loads + 1
    /\ cell_values' = [c \in {x \in Cells : view[x] # None} |-> view[c]]
    /\ dependencies' = g.dependencies
    /\ dependents' = g.dependents
    /\ formulas' = g.formulas
    /\ loaded' = TRUE
    /\ calls' = 0
    /\ recalcs' = 0
    /\ res' = [NoResult EXCEPT !.op = "load"]
    /\ UNCHANGED hash_order

\* variant: the cells Kahn's loop ordered are evaluated before the length check raises
Calculate_evaluating_before_the_check ==
    /\ calls < MaxCalls
    /\ calls' = calls + 1
    /\ UNCHANGED recalcs
    /\ LET base == [NoResult EXCEPT !.op = "calculate", !.before = cell_values,
                                    !.prev_op = res.op, !.prev_status = res.status]
           t == topological_order(Graph, hash_order)
       IN IF ~loaded
          THEN /\ res' = [base EXCEPT !.status = "not_loaded"]
               /\ UNCHANGED cell_values
          ELSE IF ~t.ok
          THEN /\ res' = [base EXCEPT !.status = "circular", !.missing = t.missing]
               /\ cell_values' = EvaluateInOrder(topological_order_unchecked(Graph, hash_order).order,
                                                 cell_values, formulas)
          ELSE IF EvaluationRaises(t.order, cell_values, formulas)
          THEN /\ res' = [base EXCEPT !.status = "value_error", !.order = t.order]
               /\ cell_values' = EvaluateInOrder(t.order, cell_values, formulas)
          ELSE LET after == EvaluateInOrder(t.order, cell_values, formulas) IN
               /\ cell_values' = after
               /\ res' = [base EXCEPT !.order = t.order,
                                      !.results = [c \in Range(t.order) |-> after[c]]]
    /\ UNCHANGED <<dependencies, dependents, formulas, loaded, hash_order, loads>>

Calculate ==
    /\ calls < MaxCalls
    /\ calls' = calls + 1
    /\ UNCHANGED recalcs
    /\ LET base == [NoResult EXCEPT !.op = "calculate", !.before = cell_values,
                                    !.prev_op = res.op, !.prev_status = res.status]
           t == topological_order(Graph, hash_order)
       IN IF ~loaded
          THEN /\ res' = [base EXCEPT !.status = "not_loaded"]
               /\ UNCHANGED cell_values
          ELSE IF ~t.ok
          THEN /\ res' = [base EXCEPT !.status = "circular", !.missing = t.missing]
               /\ UNCHANGED cell_values
          ELSE IF EvaluationRaises(t.order, cell_values, formulas)
          THEN /\ res' = [base EXCEPT !.status = "value_error", !.order = t.order]
               /\ cell_values' = EvaluateInOrder(t.order, cell_values, formulas)
          ELSE LET after == EvaluateInOrder(t.order, cell_values, formulas) IN
               /\ cell_values' = after
               /\ res' = [base EXCEPT !.order = t.order,
                                      !.results = [c \in Range(t.order) |-> after[c]]]
    /\ UNCHANGED <<dependencies, dependents, formulas, loaded, hash_order, loads>>

\* variant: recalculate without the check of _loaded
Recalculate_without_loaded_check(perturbations, tolerance) ==
    /\ calls < MaxCalls
    /\ recalcs < MaxRecalcs
    /\ calls' = calls + 1
    /\ recalcs' = recalcs + 1
    /\ LET base == [NoResult EXCEPT !.op = "recalculate", !.before = cell_values,
                                    !.prev_op = res.op, !.prev_status = res.status,
                                    !.perturbations = perturbations,
                                    !.tolerance = tolerance]
           old_values == [c \in DOMAIN formulas |-> DictGet(cell_values, c, None)]
           perturbed == [x \in DOMAIN cell_values \cup DOMAIN perturbations |->
                            IF x \in DOMAIN perturbations THEN perturbations[x]
                            ELSE cell_values[x]]
           a == affected_cells(Graph, DOMAIN perturbations, hash_order)
       IN IF ~a.ok
          THEN /\ res' = [base EXCEPT !.status = "circular", !.missing = a.missing]
               /\ cell_values' = perturbed
          ELSE IF EvaluationRaises(a.cells, perturbed, formulas)
          THEN /\ res' = [base EXCEPT !.status = "value_error", !.order = a.order,
                                      !.affected = a.cells]
               /\ cell_values' = EvaluateInOrder(a.cells, perturbed, formulas)
          ELSE LET after == EvaluateInOrder(a.cells, perturbed, formulas)
                   d == BuildDeltas(a.cells, old_values, after, formulas, tolerance)
                   depth == max_depth(Graph, DOMAIN perturbations, hash_order)
               IN /\ cell_values' = after
                  /\ res' = [base EXCEPT !.order = a.order,
                                         !.affected = a.cells,
                                         !.deltas = d.deltas,
                                         !.total_formula_cells = Cardinality(DOMAIN formulas),
                                         !.propagated_cells = d.propagated,
                                         !.max_chain_depth = depth.max_d,
                                         !.max_depth_calls = 1]
    /\ UNCHANGED <<dependencies, dependents, formulas, loaded, hash_order, loads>>

Recalculate(perturbations, tolerance) ==
    /\ calls < MaxCalls
    /\ recalcs < MaxRecalcs
    /\ calls' = calls + 1
    /\ recalcs' = recalcs + 1
    /\ LET base == [NoResult EXCEPT !.op = "recalculate", !.before = cell_values,
                                    !.prev_op = res.op, !.prev_status = res.status,
                                    !.perturbations = perturbations,
                                    !.tolerance = tolerance]
           old_values == [c \in DOMAIN formulas |-> DictGet(cell_values, c, None)]
           perturbed == [x \in DOMAIN cell_values \cup DOMAIN perturbations |->
                            IF x \in DOMAIN perturbations THEN perturbations[x]
                            ELSE cell_values[x]]
           a == affected_cells(Graph, DOMAIN perturbations, hash_order)
       IN IF ~loaded
          THEN /\ res' = [base EXCEPT !.status = "not_loaded"]
               /\ UNCHANGED cell_values
          ELSE IF ~a.ok
          THEN /\ res' = [base EXCEPT !.status = "circular", !.missing = a.missing]
               /\ cell_values' = perturbed
          ELSE IF EvaluationRaises(a.cells, perturbed, formulas)
          THEN /\ res' = [base EXCEPT !.status = "value_error", !.order = a.order,
                                      !.affected = a.cells]
               /\ cell_values' = EvaluateInOrder(a.cells, perturbed, formulas)
          ELSE LET after == EvaluateInOrder(a.cells, perturbed, formulas)
                   d == BuildDeltas(a.cells, old_values, after, formulas, tolerance)
                   depth == max_depth(Graph, DOMAIN perturbations, hash_order)
               IN /\ cell_values' = after
                  /\ res' = [base EXCEPT !.order = a.order,
                                         !.affected = a.cells,
                                         !.deltas = d.deltas,
                                         !.total_formula_cells = Cardinality(DOMAIN formulas),
                                         !.propagated_cells = d.propagated,
                                         !.max_chain_depth = depth.max_d,
                                         !.max_depth_calls = 1]
    /\ UNCHANGED <<dependencies, dependents, formulas, loaded, hash_order, loads>>

Next ==
    \/ \E view \in Views : Load(view)
    \/ Calculate
    \/ \E perturbations \in PerturbationMaps, tolerance \in Tolerances :
           Recalculate(perturbations, tolerance)

Spec == Init /\ [][Next]_vars

\* workbooks that also hold formulas the evaluator cannot evaluate
ViewsWithBadFormulas ==
    [Cells -> {Num(1)} \cup {Text(RefF(a)) : a \in Cells}
                       \cup {Text(SumF(a, a + 1)) : a \in 1..(MaxRow - 1)}
                       \cup {Text(UnknownF(a)) : a \in Cells}
                       \cup {Text(BadRangeF(a)) : a \in Cells}]

NextBad ==
    \/ \E view \in ViewsWithBadFormulas : Load(view)
    \/ Calculate

SpecBad == Init /\ [][NextBad]_vars

\* load on an engine that holds an earlier workbook, or none: views with empty cells
ViewsWithEmptyCells ==
    [Cells -> {None, Num(1)} \cup {Text(RefF(a)) : a \in Cells}
                             \cup {Text(SumF(a, a + 1)) : a \in 1..(MaxRow - 1)}]

\* the workbooks an engine may hold from an earlier load
EarlierViews == [Cells -> {None, Num(1), Text(RefF(1))}]

\* a new engine, or an engine as an earlier load of some view left it
InitLoad ==
    \/ Init
    \/ \E earlier \in EarlierViews :
           LET g == LoadCells([i \in 1..MaxRow |-> i], earlier, EmptyGraph) IN
           /\ cell_values = [c \in {x \in Cells : earlier[x] # None} |-> earlier[c]]
           /\ dependencies = g.dependencies
           /\ dependents = g.dependents
           /\ formulas = g.formulas
           /\ loaded = TRUE
           /\ hash_order \in Perms(Cells)
           /\ loads = 0
           /\ calls = 0
           /\ recalcs = 0
           /\ res = [NoResult EXCEPT !.op = "load"]

NextLoad == \E view \in ViewsWithEmptyCells : Load(view)

SpecLoad == InitLoad /\ [][NextLoad]_vars

\* the DependencyGraph class used on its own: add_formula called for any cell,
\* a cell that is registered already included
AddFormula(cell_ref, formula) ==
    LET g == add_formula(Graph, cell_ref, formula) IN
    /\ calls < MaxAdds
    /\ calls' = calls + 1
    /\ dependencies' = g.dependencies
    /\ dependents' = g.dependents
    /\ formulas' = g.formulas
    /\ res' = [NoResult EXCEPT !.op = "add_formula", !.prev_op = res.op]
    /\ UNCHANGED <<cell_values, loaded, hash_order, loads, recalcs>>

NextGraph == \E cell_ref \in Cells, formula \in FormulaTexts : AddFormula(cell_ref, formula)

SpecGraph == Init /\ [][NextGraph]_vars

\* the queries of a DependencyGraph called on whatever add_formula has built
\* passes of the while loop of affected_cells: one per cell taken from the queue
RECURSIVE AffectedIterations(_, _, _, _, _)
AffectedIterations(g, perm, queue, visited, passes) ==
    IF queue = <<>> THEN passes
    ELSE LET r == VisitDependents(ListOf(DictGet(g.dependents, Head(queue), {}), perm),
                                  visited, Tail(queue), {}, g.formulas)
         IN AffectedIterations(g, perm, r.queue, r.visited, passes + 1)

\* the sets of cells a query is given
CellSets == {T \in SUBSET Cells : Cardinality(T) <= MaxPerturbed}

\* topological_order(): one pass of the while loop per cell appended to order
TopologicalOrder ==
    LET t == topological_order(Graph, hash_order) IN
    /\ res' = [NoResult EXCEPT !.op = "topological_order",
                               !.status = IF t.ok THEN "ok" ELSE "circular",
                               !.order = t.order,
                               !.missing = t.missing,
                               !.iterations =
                                   Len(topological_order_unchecked(Graph, hash_order).order)]
    /\ UNCHANGED <<cell_values, dependencies, dependents, formulas, loaded, hash_order,
                   loads, calls, recalcs>>

AffectedCells(changed_cells) ==
    LET a == affected_cells(Graph, changed_cells, hash_order) IN
    /\ res' = [NoResult EXCEPT !.op = "affected_cells",
                               !.status = IF a.ok THEN "ok" ELSE "circular",
                               !.roots = changed_cells,
                               !.affected = a.cells,
                               !.missing = a.missing,
                               !.iterations = AffectedIterations(Graph, hash_order,
                                                  ListOf(changed_cells, hash_order),
                                                  changed_cells, 0)]
    /\ UNCHANGED <<cell_values, dependencies, dependents, formulas, loaded, hash_order,
                   loads, calls, recalcs>>

\* max_depth(roots): diverged is the call whose while loop never ends
MaxDepth(roots) ==
    LET d == max_depth(Graph, roots, hash_order) IN
    /\ res' = [NoResult EXCEPT !.op = "max_depth",
                               !.status = IF d.diverged THEN "diverged" ELSE "ok",
                               !.roots = roots,
                               !.max_chain_depth = d.max_d,
                               !.max_depth_calls = 1]
    /\ UNCHANGED <<cell_values, dependencies, dependents, formulas, loaded, hash_order,
                   loads, calls, recalcs>>

NextQueries ==
    \/ \E cell_ref \in Cells, formula \in FormulaTexts : AddFormula(cell_ref, formula)
    \/ TopologicalOrder
    \/ \E changed_cells \in CellSets : AffectedCells(changed_cells)
    \/ \E roots \in CellSets : MaxDepth(roots)

SpecQueries == Init /\ [][NextQueries]_vars

\* recalculate called again and again on one loaded engine
MaxRepeats == 2      \* recalculate calls explored one after another

\* workbooks of literals and plain references
ViewsOfReferences == [Cells -> {Num(1)} \cup {Text(RefF(a)) : a \in Cells}]

\* [cell_values, res]: what one recalculate call leaves in the store and returns
recalculate(perturbations, tolerance) ==
    LET base == [NoResult EXCEPT !.op = "recalculate", !.before = cell_values,
                                 !.prev_op = res.op, !.prev_status = res.status,
                                 !.perturbations = perturbations,
                                 !.tolerance = tolerance]
        old_values == [c \in DOMAIN formulas |-> DictGet(cell_values, c, None)]
        perturbed == [x \in DOMAIN cell_values \cup DOMAIN perturbations |->
                         IF x \in DOMAIN perturbations THEN perturbations[x]
                         ELSE cell_values[x]]
        a == affected_cells(Graph, DOMAIN perturbations, hash_order)
    IN IF ~loaded
       THEN [cell_values |-> cell_values, res |-> [base EXCEPT !.status = "not_loaded"]]
       ELSE IF ~a.ok
       THEN [cell_values |-> perturbed,
             res |-> [base EXCEPT !.status = "circular", !.missing = a.missing]]
       ELSE IF EvaluationRaises(a.cells, perturbed, formulas)
       THEN [cell_values |-> EvaluateInOrder(a.cells, perturbed, formulas),
             res |-> [base EXCEPT !.status = "value_error", !.order = a.order,
                                  !.affected = a.cells]]
       ELSE LET after == EvaluateInOrder(a.cells, perturbed, formulas)
                d == BuildDeltas(a.cells, old_values, after, formulas, tolerance)
                depth == max_depth(Graph, DOMAIN perturbations, hash_order)
            IN [cell_values |-> after,
                res |-> [base EXCEPT !.order = a.order,
                                     !.affected = a.cells,
                                     !.deltas = d.deltas,
                                     !.total_formula_cells = Cardinality(DOMAIN formulas),
                                     !.propagated_cells = d.propagated,
                                     !.max_chain_depth = depth.max_d,
                                         !.max_depth_calls = 1]]

\* variant: the store is put back as it was once the result is built
RecalculateAgain_rolling_back(perturbations, tolerance) ==
    /\ recalcs < MaxRepeats
    /\ calls' = calls + 1
    /\ recalcs' = recalcs + 1
    /\ res' = recalculate(perturbations, tolerance).res
    /\ UNCHANGED cell_values
    /\ UNCHANGED <<dependencies, dependents, formulas, loaded, hash_order, loads>>

RecalculateAgain(perturbations, tolerance) ==
    /\ recalcs < MaxRepeats
    /\ calls' = calls + 1
    /\ recalcs' = recalcs + 1
    /\ res' = recalculate(perturbations, tolerance).res
    /\ cell_values' = recalculate(perturbations, tolerance).cell_values
    /\ UNCHANGED <<dependencies, dependents, formulas, loaded, hash_order, loads>>

NextRepeat ==
    \/ \E view \in ViewsOfReferences : Load(view)
    \/ \E perturbations \in PerturbationMaps, tolerance \in Tolerances :
           RecalculateAgain(perturbations, tolerance)

SpecRepeat == Init /\ [][NextRepeat]_vars

\* ---------------------------------------------------------------- values of expressions
\* Python values beyond those a view holds.  A str is the sequence of its
\* characters; a float is the fraction <<p, q>> in lowest terms with q > 0 (float
\* arithmetic is taken as exact); a bool is an int (1 or 0) of its own kind.
Bool(b) == [k |-> "bool", n |-> IF b THEN 1 ELSE 0, f |-> NoFormula]
Float(p, q) == [k |-> "float", n |-> <<p, q>>, f |-> NoFormula]
Str(chars) == [k |-> "str", n |-> chars, f |-> NoFormula]
Err(code) == [k |-> "err", n |-> code, f |-> NoFormula]

ErrorCodes == {"#N/A", "#VALUE!", "#REF!", "#DIV/0!", "#NUM!", "#NAME?"}
DIV0 == Err("#DIV/0!")

is_error(val) == val.k = "err"

\* variant: the last error instead of the first
RECURSIVE last_error(_)
last_error(values) ==
    IF values = <<>> THEN None
    ELSE IF is_error(values[Len(values)]) THEN values[Len(values)]
    ELSE last_error(SubSeq(values, 1, Len(values) - 1))

\* first_error(*values)
RECURSIVE first_error(_)
first_error(values) ==
    IF values = <<>> THEN None
    ELSE IF is_error(Head(values)) THEN Head(values)
    ELSE first_error(Tail(values))

\* isinstance(val, (int, float)): a bool is an int
IsNumber(val) == val.k \in {"num", "bool", "float"}
Numerator(val) == IF val.k = "float" THEN val.n[1] ELSE val.n
Denominator(val) == IF val.k = "float" THEN val.n[2] ELSE 1

RECURSIVE GCD(_, _)
GCD(x, y) == IF y = 0 THEN x ELSE GCD(y, x % y)

\* the number p/q: an int when both operands were ints, else a float
Number(p, q, is_float) ==
    LET sign == IF q < 0 THEN -1 ELSE 1
        g == GCD(Abs(p), Abs(q))
    IN IF is_float THEN Float((sign * p) \div g, (sign * q) \div g) ELSE Num(p \div q)

EitherFloat(x, y) == x.k = "float" \/ y.k = "float"
Plus(x, y) ==
    Number(Numerator(x) * Denominator(y) + Numerator(y) * Denominator(x),
           Denominator(x) * Denominator(y), EitherFloat(x, y))
Minus(x, y) ==
    Number(Numerator(x) * Denominator(y) - Numerator(y) * Denominator(x),
           Denominator(x) * Denominator(y), EitherFloat(x, y))
Times(x, y) ==
    Number(Numerator(x) * Numerator(y), Denominator(x) * Denominator(y), EitherFloat(x, y))
\* true division: always a float
Divide(x, y) == Number(Numerator(x) * Denominator(y), Denominator(x) * Numerator(y), TRUE)
LessThan(x, y) == Numerator(x) * Denominator(y) < Numerator(y) * Denominator(x)
SameNumber(x, y) == Numerator(x) * Denominator(y) = Numerator(y) * Denominator(x)
Negate(x) == IF x.k = "float" THEN Float(-x.n[1], x.n[2]) ELSE Num(-x.n)

\* the characters of the model's strings, in code point order
Chars == <<"-", ".", "0", "1", "2", "3", "4", "5", "6", "7", "8", "9", "B", "F", "T",
           "a", "b", "e", "f", "l", "r", "s", "t", "u">>
Code(ch) == CHOOSE i \in DOMAIN Chars : Chars[i] = ch
Digits == <<"0", "1", "2", "3", "4", "5", "6", "7", "8", "9">>

\* str(n) of an int
RECURSIVE DigitsOf(_)
DigitsOf(n) == IF n < 10 THEN <<Digits[n + 1]>> ELSE DigitsOf(n \div 10) \o <<Digits[(n % 10) + 1]>>
IntText(n) == IF n < 0 THEN <<"-">> \o DigitsOf(-n) ELSE DigitsOf(n)

\* str(x) if x is not None else "": floats with a denominator of 1 or 2
text_of(val) ==
    CASE val.k = "none" -> <<>>
      [] val.k = "num" -> IntText(val.n)
      [] val.k = "bool" -> IF val.n = 1 THEN <<"T", "r", "u", "e">> ELSE <<"F", "a", "l", "s", "e">>
      [] val.k = "str" -> val.n
      [] val.k = "float" /\ val.n[2] = 1 -> IntText(val.n[1]) \o <<".", "0">>
      [] val.k = "float" /\ val.n[2] = 2 /\ val.n[1] > 0 -> IntText(val.n[1] \div 2) \o <<".", "5">>

\* _binary_op
binary_op(left, op, right) ==
    LET err == first_error(<<left, right>>) IN
    IF err # None THEN err
    ELSE IF op = "&" THEN Str(text_of(left) \o text_of(right))
    ELSE IF ~IsNumber(left) \/ ~IsNumber(right) THEN None
    ELSE CASE op = "+" -> Plus(left, right)
           [] op = "-" -> Minus(left, right)
           [] op = "*" -> Times(left, right)
           [] op = "/" -> IF Numerator(right) = 0 THEN DIV0 ELSE Divide(left, right)
           [] OTHER -> None

\* float(text): the text of an optional sign, digits and at most one point
\* (texts with an exponent, "inf" or "nan" are outside the model's strings)
IsDigit(ch) == \E i \in DOMAIN Digits : Digits[i] = ch
DigitValue(ch) == (CHOOSE i \in DOMAIN Digits : Digits[i] = ch) - 1
Unsigned(chars) == IF chars # <<>> /\ Head(chars) = "-" THEN Tail(chars) ELSE chars
ParsesAsFloat(chars) ==
    LET body == Unsigned(chars) IN
    /\ \E i \in DOMAIN body : IsDigit(body[i])
    /\ \A i \in DOMAIN body : IsDigit(body[i]) \/ body[i] = "."
    /\ Cardinality({i \in DOMAIN body : body[i] = "."}) <= 1

RECURSIVE DecimalValue(_, _, _, _)
DecimalValue(chars, p, q, after_point) ==
    IF chars = <<>> THEN <<p, q>>
    ELSE IF Head(chars) = "." THEN DecimalValue(Tail(chars), p, q, TRUE)
    ELSE DecimalValue(Tail(chars), 10 * p + DigitValue(Head(chars)),
                      IF after_point THEN 10 * q ELSE q, after_point)

ParsedFloat(chars) ==
    LET v == DecimalValue(Unsigned(chars), 0, 1, FALSE)
        sign == IF chars # <<>> /\ Head(chars) = "-" THEN -1 ELSE 1
    IN Number(sign * v[1], v[2], TRUE)

\* whether float(val) returns (numbers are used as they are)
Coerces(val) == IsNumber(val) \/ (val.k = "str" /\ ParsesAsFloat(val.n))
Coerced(val) == IF IsNumber(val) THEN val ELSE ParsedFloat(val.n)

\* str.lower
LowerChar(ch) == CASE ch = "B" -> "b" [] ch = "F" -> "f" [] ch = "T" -> "t" [] OTHER -> ch
Lower(chars) == [i \in DOMAIN chars |-> LowerChar(chars[i])]

\* s < t for two str
RECURSIVE TextLess(_, _)
TextLess(s1, s2) ==
    IF s2 = <<>> THEN FALSE
    ELSE IF s1 = <<>> THEN TRUE
    ELSE IF Head(s1) # Head(s2) THEN Code(Head(s1)) < Code(Head(s2))
    ELSE TextLess(Tail(s1), Tail(s2))

ComparisonOperators == {"=", "<>", ">", "<", ">=", "<="}
ArithmeticOperators == {"+", "-", "*", "/", "&"}

\* _compare
compare(left, right, op) ==
    LET err == first_error(<<left, right>>) IN
    IF err # None THEN err
    ELSE IF Coerces(left) /\ Coerces(right)
    THEN LET lf == Coerced(left)
             rf == Coerced(right)
         IN CASE op = ">" -> Bool(LessThan(rf, lf))
              [] op = "<" -> Bool(LessThan(lf, rf))
              [] op = ">=" -> Bool(~LessThan(lf, rf))
              [] op = "<=" -> Bool(~LessThan(rf, lf))
              [] op = "=" -> Bool(SameNumber(lf, rf))
              [] op = "<>" -> Bool(~SameNumber(lf, rf))
              [] OTHER -> Bool(FALSE)
    ELSE LET ls == Lower(text_of(left))
             rs == Lower(text_of(right))
         IN CASE op = "=" -> Bool(ls = rs)
              [] op = "<>" -> Bool(ls # rs)
              [] op = ">" -> Bool(TextLess(rs, ls))
              [] op = "<" -> Bool(TextLess(ls, rs))
              [] op = ">=" -> Bool(~TextLess(ls, rs))
              [] op = "<=" -> Bool(~TextLess(rs, ls))
              [] OTHER -> Bool(FALSE)

\* the engine's own state in the specifications of single functions: a new engine
NewEngine ==
    /\ cell_values = EmptyDict
    /\ dependencies = EmptyDict
    /\ dependents = EmptyDict
    /\ formulas = EmptyDict
    /\ loaded = FALSE
    /\ hash_order = [i \in 1..MaxRow |-> i]
    /\ loads = 0
    /\ calls = 0
    /\ recalcs = 0

EngineUnchanged ==
    UNCHANGED <<cell_values, dependencies, dependents, formulas, loaded, hash_order,
                loads, calls, recalcs>>

\* ---- _eval_expr step 1 on two evaluated operands
Operands ==
    {None, Num(0), Num(2), Float(1, 2), Bool(TRUE), Str(<<"a">>), Str(<<"B">>), Str(<<"2">>),
     Err("#DIV/0!"), Err("#N/A"), Err("#VALUE!")}

InitOperator ==
    /\ NewEngine
    /\ res \in [op : {"args"}, left : Operands, operator : ArithmeticOperators \cup ComparisonOperators,
                right : Operands, out : {None}]

\* if op in ('+', '-', '*', '/', '&'): _binary_op, else _compare
ApplyOperator ==
    /\ res.op = "args"
    /\ res' = [res EXCEPT !.op = "applied",
                          !.out = IF res.operator \in ArithmeticOperators
                                  THEN binary_op(res.left, res.operator, res.right)
                                  ELSE compare(res.left, res.right, res.operator)]
    /\ EngineUnchanged

SpecOperator == InitOperator /\ [][ApplyOperator]_vars

\* variant: the share of the affected cells instead of the changed ones
propagation_ratio_of_affected(result) ==
    IF result.total_formula_cells = 0 THEN Float(0, 1)
    ELSE Divide(Num(Len(result.affected)), Num(result.total_formula_cells))

\* RecalcResult.propagation_ratio
propagation_ratio(result) ==
    IF result.total_formula_cells = 0 THEN Float(0, 1)
    ELSE Divide(Num(result.propagated_cells), Num(result.total_formula_cells))

\* ---------------------------------------------------------------- expressions
\* An expression is the sequence of its characters.  The expressions of the model
\* are written with digits, operators, parentheses, spaces and quotes: no letters,
\* so none is a function call, a boolean or the name of a stored cell.

\* str.strip
RECURSIVE StripLeft(_)
StripLeft(chars) ==
    IF chars # <<>> /\ Head(chars) = " " THEN StripLeft(Tail(chars)) ELSE chars
RECURSIVE StripRight(_)
StripRight(chars) ==
    IF chars # <<>> /\ chars[Len(chars)] = " "
    THEN StripRight(SubSeq(chars, 1, Len(chars) - 1)) ELSE chars
Strip(chars) == StripRight(StripLeft(chars))

NoSplit == [found |-> FALSE, left |-> <<>>, op |-> "", right |-> <<>>]
OpLen(op) == IF op \in {">=", "<=", "<>"} THEN 2 ELSE 1

\* matched_op and op_start at position i (positions count from 1)
MatchedOp(expr, pass_type, i) ==
    LET ch == expr[i]
        two == <<expr[i - 1], ch>>
    IN CASE pass_type = "cmp" /\ two = <<">", "=">> -> [op |-> ">=", op_start |-> i - 1]
         [] pass_type = "cmp" /\ two = <<"<", "=">> -> [op |-> "<=", op_start |-> i - 1]
         [] pass_type = "cmp" /\ two = <<"<", ">">> -> [op |-> "<>", op_start |-> i - 1]
         [] pass_type = "cmp" /\ ch \in {">", "<"} /\ two # <<"<", ">">> -> [op |-> ch, op_start |-> i]
         [] pass_type = "cmp" /\ ch = "=" /\ expr[i - 1] \notin {">", "<", "!"} -> [op |-> ch, op_start |-> i]
         [] pass_type = "add" /\ ch \in {"+", "-", "&"} -> [op |-> ch, op_start |-> i]
         [] pass_type = "mul" /\ ch \in {"*", "/"} -> [op |-> ch, op_start |-> i]
         [] OTHER -> [op |-> "", op_start |-> i]

\* the nearest position at or before j that holds no space, 0 when there is none
RECURSIVE PrecedingNonSpace(_, _)
PrecedingNonSpace(expr, j) ==
    IF j >= 1 /\ expr[j] = " " THEN PrecedingNonSpace(expr, j - 1) ELSE j

\* characters after which + - and the other operators are not binary
NotBinaryAfter == {"(", ",", "+", "-", "*", "/", ">", "<", "="}

\* one right-to-left pass of _find_top_level_split, from position i
RECURSIVE ScanPass(_, _, _, _, _)
ScanPass(expr, pass_type, i, depth, in_string) ==
    IF i <= 1 THEN NoSplit
    ELSE LET ch == expr[i]
             m == MatchedOp(expr, pass_type, i)
             j == PrecedingNonSpace(expr, m.op_start - 1)
             left == Strip(SubSeq(expr, 1, m.op_start - 1))
             right == Strip(SubSeq(expr, m.op_start + OpLen(m.op), Len(expr)))
         IN IF ch = "\"" THEN ScanPass(expr, pass_type, i - 1, depth, ~in_string)
            ELSE IF in_string THEN ScanPass(expr, pass_type, i - 1, depth, in_string)
            ELSE IF ch = ")" THEN ScanPass(expr, pass_type, i - 1, depth + 1, in_string)
            ELSE IF ch = "(" THEN ScanPass(expr, pass_type, i - 1, depth - 1, in_string)
            ELSE IF depth # 0 THEN ScanPass(expr, pass_type, i - 1, depth, in_string)
            ELSE IF m.op = "" THEN ScanPass(expr, pass_type, i - 1, depth, in_string)
            ELSE IF m.op_start <= 1 THEN ScanPass(expr, pass_type, i - 1, depth, in_string)
            ELSE IF j < 1 \/ expr[j] \in NotBinaryAfter
                 THEN ScanPass(expr, pass_type, i - 1, depth, in_string)
            ELSE IF m.op \in {"+", "-"} /\ j >= 2 /\ expr[j] \in {"e", "E"} /\ IsDigit(expr[j - 1])
                 THEN ScanPass(expr, pass_type, i - 1, depth, in_string)
            ELSE IF left # <<>> /\ right # <<>>
                 THEN [found |-> TRUE, left |-> left, op |-> m.op, right |-> right]
            ELSE ScanPass(expr, pass_type, i - 1, depth, in_string)

\* _find_top_level_split
find_top_level_split(expr) ==
    LET cmp == ScanPass(expr, "cmp", Len(expr), 0, FALSE)
        add == ScanPass(expr, "add", Len(expr), 0, FALSE)
        mul == ScanPass(expr, "mul", Len(expr), 0, FALSE)
    IN IF cmp.found THEN cmp ELSE IF add.found THEN add ELSE mul

\* _find_matching_paren: position of the ")" matching the "(" before position i, 0 when none
RECURSIVE find_matching_paren(_, _, _, _)
find_matching_paren(expr, i, depth, in_string) ==
    IF i > Len(expr) THEN 0
    ELSE IF expr[i] = "\"" THEN find_matching_paren(expr, i + 1, depth, ~in_string)
    ELSE IF in_string THEN find_matching_paren(expr, i + 1, depth, in_string)
    ELSE IF expr[i] = "(" THEN find_matching_paren(expr, i + 1, depth + 1, in_string)
    ELSE IF expr[i] = ")"
         THEN IF depth = 1 THEN i ELSE find_matching_paren(expr, i + 1, depth - 1, in_string)
    ELSE find_matching_paren(expr, i + 1, depth, in_string)

\* _eval_expr on a new engine
RECURSIVE eval_expr(_)
eval_expr(text) ==
    LET expr == Strip(text)
        split == find_top_level_split(expr)
    IN IF expr = <<>> THEN None
       ELSE IF split.found
       THEN LET left_val == eval_expr(split.left)
                right_val == eval_expr(split.right)
            IN IF split.op \in ArithmeticOperators
               THEN binary_op(left_val, split.op, right_val)
               ELSE compare(left_val, right_val, split.op)
       ELSE IF Head(expr) = "(" /\ find_matching_paren(expr, 2, 1, FALSE) = Len(expr)
       THEN eval_expr(SubSeq(expr, 2, Len(expr) - 1))
       ELSE IF Head(expr) = "-"
       THEN LET val == eval_expr(Tail(expr))
            IN IF IsNumber(val) THEN Negate(val) ELSE val
       ELSE IF Head(expr) = "+" THEN eval_expr(Tail(expr))
       ELSE IF ParsesAsFloat(expr)
       THEN IF \A i \in DOMAIN expr : IsDigit(expr[i])
            THEN Num(Numerator(ParsedFloat(expr)))
            ELSE ParsedFloat(expr)
       ELSE IF Len(expr) >= 2 /\ Head(expr) = "\"" /\ expr[Len(expr)] = "\""
       THEN Str(SubSeq(expr, 2, Len(expr) - 1))
       ELSE None

\* ---- expressions of two operators
Literals == {"1", "2"}
Operators == {"+", "-", "*", "/", "&", "<", ">=", "="}
Shapes == {"a.b.c", "(a.b).c", "a.(b.c)", "a.-b"}
OpChars(op) ==
    CASE op = ">=" -> <<">", "=">> [] op = "<=" -> <<"<", "=">> [] op = "<>" -> <<"<", ">">>
      [] OTHER -> <<op>>

ExpressionOf(r) ==
    CASE r.shape = "a.b.c" -> <<r.a>> \o OpChars(r.op1) \o <<r.b>> \o OpChars(r.op2) \o <<r.c>>
      [] r.shape = "(a.b).c" ->
            <<"(", r.a>> \o OpChars(r.op1) \o <<r.b, ")">> \o OpChars(r.op2) \o <<r.c>>
      [] r.shape = "a.(b.c)" ->
            <<r.a>> \o OpChars(r.op1) \o <<"(", r.b>> \o OpChars(r.op2) \o <<r.c, ")">>
      [] r.shape = "a.-b" -> <<r.a>> \o OpChars(r.op1) \o <<"-", r.b>>

InitExpression ==
    /\ NewEngine
    /\ res \in [op : {"expression"}, shape : Shapes, a : Literals, b : Literals, c : Literals,
                op1 : Operators, op2 : Operators, out : {None}]
    /\ res.shape = "a.-b" => (res.op2 = "+" /\ res.c = "1")

\* _eval_expr(expr, sheet)
EvalExpr ==
    /\ res.op = "expression"
    /\ res' = [res EXCEPT !.op = "evaluated", !.out = eval_expr(ExpressionOf(res))]
    /\ EngineUnchanged

SpecExpression == InitExpression /\ [][EvalExpr]_vars

\* ---------------------------------------------------------------- ranges as text
\* A reference is the sequence of its characters, as in "Sheet1!A1:B2".
Alphabet == <<"A", "B", "C", "D", "E", "F", "G", "H", "I", "J", "K", "L", "M",
              "N", "O", "P", "Q", "R", "S", "T", "U", "V", "W", "X", "Y", "Z">>
IsLetter(ch) == \E i \in DOMAIN Alphabet : Alphabet[i] = ch
LetterValue(ch) == CHOOSE i \in DOMAIN Alphabet : Alphabet[i] = ch

\* column_index: base 26 with the digits A = 1 ... Z = 26
RECURSIVE column_index(_)
column_index(letters) ==
    IF letters = <<>> THEN 0
    ELSE 26 * column_index(SubSeq(letters, 1, Len(letters) - 1)) + LetterValue(letters[Len(letters)])

\* column_letter
RECURSIVE column_letter(_)
column_letter(n) ==
    IF n = 0 THEN <<>>
    ELSE column_letter((n - 1) \div 26) \o <<Alphabet[((n - 1) % 26) + 1]>>

\* int(text) of a text of digits
RECURSIVE IntOf(_)
IntOf(digits) ==
    IF digits = <<>> THEN 0
    ELSE 10 * IntOf(SubSeq(digits, 1, Len(digits) - 1)) + DigitValue(digits[Len(digits)])

\* a1_to_rowcol of a text [A-Z]+[0-9]+ : <<row, col>>
a1_to_rowcol(a1) ==
    LET letters == SelectSeq(a1, IsLetter)
        digits == SelectSeq(a1, IsDigit)
    IN <<IntOf(digits), column_index(letters)>>

\* rowcol_to_a1
rowcol_to_a1(row, col) == column_letter(col) \o IntText(row)

\* the last position of ch in chars, 0 when it is absent
LastIndexOf(chars, ch) ==
    IF \E i \in DOMAIN chars : chars[i] = ch
    THEN CHOOSE i \in DOMAIN chars : chars[i] = ch /\ \A j \in DOMAIN chars : chars[j] = ch => j <= i
    ELSE 0

\* str.strip("'")
RECURSIVE StripQuotes(_)
StripQuotes(chars) ==
    IF chars # <<>> /\ Head(chars) = "'" THEN StripQuotes(Tail(chars))
    ELSE IF chars # <<>> /\ chars[Len(chars)] = "'"
         THEN StripQuotes(SubSeq(chars, 1, Len(chars) - 1))
    ELSE chars

\* str.split(":")
RECURSIVE SplitAtColons(_)
SplitAtColons(chars) ==
    IF \A i \in DOMAIN chars : chars[i] # ":" THEN <<chars>>
    ELSE LET i == CHOOSE k \in DOMAIN chars : chars[k] = ":" /\ \A j \in 1..(k - 1) : chars[j] # ":"
         IN <<SubSeq(chars, 1, i - 1)>> \o SplitAtColons(SubSeq(chars, i + 1, Len(chars)))

\* str.replace("$", "")
NotDollar(ch) == ch # "$"
WithoutDollars(chars) == SelectSeq(chars, NotDollar)

\* variant: the corners in the order they were written
corners_as_written(start, end) ==
    [r_min |-> start[1], r_max |-> end[1], c_min |-> start[2], c_max |-> end[2]]

\* "Normalize order"
normalize_order(start, end) ==
    [r_min |-> Min2(start[1], end[1]), r_max |-> Max2(start[1], end[1]),
     c_min |-> Min2(start[2], end[2]), c_max |-> Max2(start[2], end[2])]

\* for c in range(c, c_max + 1)
RECURSIVE RowOfRefs(_, _, _, _)
RowOfRefs(prefix, r, c, c_max) ==
    IF c > c_max THEN <<>>
    ELSE <<prefix \o rowcol_to_a1(r, c)>> \o RowOfRefs(prefix, r, c + 1, c_max)

\* for r in range(r, r_max + 1)
RECURSIVE RowsOfRefs(_, _, _, _, _)
RowsOfRefs(prefix, r, r_max, c_min, c_max) ==
    IF r > r_max THEN <<>>
    ELSE RowOfRefs(prefix, r, c_min, c_max) \o RowsOfRefs(prefix, r + 1, r_max, c_min, c_max)

\* expand_range on the text of a range
expand_range_ref(range_ref) ==
    LET bang == LastIndexOf(range_ref, "!")
        prefix == IF bang = 0 THEN <<>> ELSE StripQuotes(SubSeq(range_ref, 1, bang - 1)) \o <<"!">>
        ref_part == SubSeq(range_ref, bang + 1, Len(range_ref))
        parts == SplitAtColons(ref_part)
    IN IF Len(parts) # 2 THEN Raised
       ELSE LET box == normalize_order(a1_to_rowcol(WithoutDollars(parts[1])),
                                       a1_to_rowcol(WithoutDollars(parts[2])))
            IN RowsOfRefs(prefix, box.r_min, box.r_max, box.c_min, box.c_max)

\* ---- ranges of the model
MaxColumn == 3
SheetPrefixes == {<<>>, <<"S", "!">>, <<"'", "S", "'", "!">>}
CornerText(row, col, absolute) ==
    IF absolute THEN <<"$", Alphabet[col], "$", Digits[row + 1]>> ELSE <<Alphabet[col], Digits[row + 1]>>
RangeText(r) ==
    r.sheet \o CornerText(r.row1, r.col1, r.absolute) \o <<":">> \o CornerText(r.row2, r.col2, r.absolute)

InitRange ==
    /\ NewEngine
    /\ res \in [op : {"range"}, sheet : SheetPrefixes, absolute : BOOLEAN,
                row1 : 1..MaxRow, col1 : 1..MaxColumn, row2 : 1..MaxRow, col2 : 1..MaxColumn,
                out : {<<>>}]

\* expand_range(range_ref)
ExpandRange ==
    /\ res.op = "range"
    /\ res' = [res EXCEPT !.op = "expanded", !.out = expand_range_ref(RangeText(res))]
    /\ EngineUnchanged

SpecRange == InitRange /\ [][ExpandRange]_vars

\* ---------------------------------------------------------------- date serials
\* calendar.isleap
isleap(y) == y % 4 = 0 /\ (y % 100 # 0 \/ y % 400 = 0)
\* calendar.monthrange(y, m)[1]
DaysInMonth(y, m) ==
    IF m = 2 THEN (IF isleap(y) THEN 29 ELSE 28)
    ELSE IF m \in {4, 6, 9, 11} THEN 30 ELSE 31
RECURSIVE DaysBeforeMonth(_, _)
DaysBeforeMonth(y, m) == IF m = 1 THEN 0 ELSE DaysBeforeMonth(y, m - 1) + DaysInMonth(y, m - 1)
\* the days before 1 January of year y, from year 1
DaysBeforeYear(y) == (y - 1) * 365 + (y - 1) \div 4 - (y - 1) \div 100 + (y - 1) \div 400
\* datetime.date(y, m, d).toordinal()
toordinal(y, m, d) == DaysBeforeYear(y) + DaysBeforeMonth(y, m) + d

\* datetime.date.fromordinal(n), by cycles of 400, 100, 4 and 1 years
fromordinal(ordinal) ==
    LET n0 == ordinal - 1
        n400 == n0 \div 146097
        r400 == n0 % 146097
        n100 == r400 \div 36524
        r100 == r400 % 36524
        n4 == r100 \div 1461
        r4 == r100 % 1461
        n1 == r4 \div 365
        n == r4 % 365
        year == n400 * 400 + 1 + n100 * 100 + n4 * 4 + n1
        month == CHOOSE m \in 1..12 :
                     DaysBeforeMonth(year, m) <= n /\ n < DaysBeforeMonth(year, m) + DaysInMonth(year, m)
    IN IF n1 = 4 \/ n100 = 4 THEN <<year - 1, 12, 31>>
       ELSE <<year, month, n - DaysBeforeMonth(year, month) + 1>>

LOTUS_BUG_SERIAL == 60
\* epoch = datetime.date(1899, 12, 31): serial 0
Epoch == toordinal(1899, 12, 31)

\* variant: the days since the epoch, without the phantom day
date_to_serial_of_calendar(y, m, d) ==
    LET y1 == y + (m - 1) \div 12
        m1 == ((m - 1) % 12) + 1
    IN toordinal(y1, m1, Min2(d, DaysInMonth(y1, m1))) - Epoch

\* _date_to_serial
date_to_serial(y, m, d) ==
    LET y1 == y + (m - 1) \div 12
        m1 == ((m - 1) % 12) + 1
        serial == toordinal(y1, m1, Min2(d, DaysInMonth(y1, m1))) - Epoch
    IN IF serial >= LOTUS_BUG_SERIAL THEN serial + 1 ELSE serial

\* _serial_to_date
serial_to_date(serial) ==
    IF serial = LOTUS_BUG_SERIAL THEN <<1900, 2, 29>>
    ELSE fromordinal(Epoch + (IF serial > LOTUS_BUG_SERIAL THEN serial - 1 ELSE serial))

\* ---- dates and serials of the model: the years from 1900 on, two century years
MaxYear == 1904
MaxSerial == 122
Years == (1900..MaxYear) \cup {2000, 2100}
Dates ==
    {<<y, m, d>> \in Years \X (1..12) \X (1..31) : d <= DaysInMonth(y, m)} \cup {<<1900, 2, 29>>}

InitDate ==
    /\ NewEngine
    /\ \/ \E date \in Dates : res = [op |-> "date", date |-> date, serial |-> 0, out |-> <<>>]
       \/ \E serial \in 1..MaxSerial :
              res = [op |-> "serial", date |-> <<>>, serial |-> serial, out |-> <<>>]

\* _serial_to_date(_date_to_serial(y, m, d))
DateRoundTrip ==
    /\ res.op = "date"
    /\ LET serial == date_to_serial(res.date[1], res.date[2], res.date[3])
       IN res' = [res EXCEPT !.op = "round_trip", !.serial = serial, !.out = serial_to_date(serial)]
    /\ EngineUnchanged

\* _serial_to_date(serial)
SerialToDate ==
    /\ res.op = "serial"
    /\ res' = [res EXCEPT !.op = "from_serial", !.out = serial_to_date(res.serial)]
    /\ EngineUnchanged

NextDate == DateRoundTrip \/ SerialToDate
SpecDate == InitDate /\ [][NextDate]_vars

\* ---------------------------------------------------------------- builtins on values
\* a list, a tuple or a RangeValue of values
List(values) == [k |-> "list", n |-> values, f |-> NoFormula]
\* float(v) of a number
ToFloat(v) == Number(Numerator(v), Denominator(v), TRUE)
\* math.floor of a number: an int
Floor(v) == Num(Numerator(v) \div Denominator(v))

\* variant: booleans skipped like strings
RECURSIVE coerce_numeric_skipping_bool(_)
coerce_numeric_skipping_bool(values) ==
    IF values = <<>> THEN <<>>
    ELSE LET v == Head(values)
             rest == coerce_numeric_skipping_bool(Tail(values))
         IN IF is_error(v) THEN rest
            ELSE IF v.k = "list" THEN coerce_numeric_skipping_bool(v.n) \o rest
            ELSE IF v.k \in {"num", "float"} THEN <<ToFloat(v)>> \o rest
            ELSE rest

\* _coerce_numeric
RECURSIVE coerce_numeric(_)
coerce_numeric(values) ==
    IF values = <<>> THEN <<>>
    ELSE LET v == Head(values)
             rest == coerce_numeric(Tail(values))
         IN IF is_error(v) THEN rest
            ELSE IF v.k = "list" THEN coerce_numeric(v.n) \o rest
            ELSE IF v.k = "bool" THEN <<ToFloat(v)>> \o rest
            ELSE IF IsNumber(v) THEN <<ToFloat(v)>> \o rest
            ELSE rest

\* sum(nums): starts from the int 0
RECURSIVE SumOf(_)
SumOf(nums) == IF nums = <<>> THEN Num(0) ELSE Plus(SumOf(SubSeq(nums, 1, Len(nums) - 1)), nums[Len(nums)])
\* min(nums), max(nums) of a list that is not empty
RECURSIVE MinOf(_)
MinOf(nums) ==
    IF Len(nums) = 1 THEN nums[1]
    ELSE LET m == MinOf(Tail(nums)) IN IF LessThan(m, Head(nums)) THEN m ELSE Head(nums)
RECURSIVE MaxOf(_)
MaxOf(nums) ==
    IF Len(nums) = 1 THEN nums[1]
    ELSE LET m == MaxOf(Tail(nums)) IN IF LessThan(Head(nums), m) THEN m ELSE Head(nums)

\* _builtin_sum on the arguments of a call
builtin_sum_args(args) == SumOf(coerce_numeric(args))
\* _builtin_count
builtin_count(args) == Float(Len(coerce_numeric(args)), 1)
\* _builtin_min
builtin_min(args) ==
    LET nums == coerce_numeric(args) IN IF nums = <<>> THEN Float(0, 1) ELSE MinOf(nums)
\* _builtin_max
builtin_max(args) ==
    LET nums == coerce_numeric(args) IN IF nums = <<>> THEN Float(0, 1) ELSE MaxOf(nums)
\* _builtin_average
builtin_average(args) ==
    LET nums == coerce_numeric(args)
    IN IF nums = <<>> THEN Raised ELSE Divide(SumOf(nums), Num(Len(nums)))

\* _builtin_mod
builtin_mod(args) ==
    IF Len(args) # 2 THEN Raised
    ELSE LET nums == coerce_numeric(args)
         IN IF Len(nums) # 2 THEN Raised
            ELSE IF Numerator(nums[2]) = 0 THEN Raised
            ELSE Minus(nums[1], Times(nums[2], Floor(Divide(nums[1], nums[2]))))

\* ---- criteria (a number, or the text of an operator and a number)
\* _CRITERIA_OP_RE: the operator a criterion text starts with
CriteriaOp(chars) ==
    IF Len(chars) >= 2 /\ <<chars[1], chars[2]>> \in {<<">", "=">>, <<"<", "=">>, <<"<", ">">>}
    THEN IF chars[1] = ">" THEN ">=" ELSE IF chars[2] = "=" THEN "<=" ELSE "<>"
    ELSE IF chars # <<>> /\ chars[1] \in {">", "<", "="} THEN chars[1]
    ELSE ""

\* _parse_criteria(criteria)(v), for a number and for an operator with a number
parse_criteria(criteria, v) ==
    IF IsNumber(criteria) THEN IsNumber(v) /\ SameNumber(v, criteria)
    ELSE LET op == CriteriaOp(criteria.n)
             t == ParsedFloat(Strip(SubSeq(criteria.n, OpLen(op) + 1, Len(criteria.n))))
         IN CASE op = ">" -> IsNumber(v) /\ LessThan(t, v)
              [] op = "<" -> IsNumber(v) /\ LessThan(v, t)
              [] op = ">=" -> IsNumber(v) /\ ~LessThan(v, t)
              [] op = "<=" -> IsNumber(v) /\ ~LessThan(t, v)
              [] op = "<>" -> ~(IsNumber(v) /\ SameNumber(v, t))
              [] op = "=" -> IsNumber(v) /\ SameNumber(v, t)

\* _flatten_range
flatten_range(arg) == IF arg.k = "list" THEN arg.n ELSE <<arg>>

\* variant: one pair that holds is enough
any_predicate(args, first, i) ==
    \E j \in first..(Len(args) - 1) :
        /\ (j - first) % 2 = 0
        /\ i <= Len(flatten_range(args[j]))
        /\ parse_criteria(args[j + 1], flatten_range(args[j])[i])

\* all(pred(cv[i]) if i < len(cv) else False for cv, pred in predicates), the
\* pairs being args[first], args[first + 1], args[first + 2], ...
all_predicates(args, first, i) ==
    \A j \in first..(Len(args) - 1) :
        (j - first) % 2 = 0 =>
            /\ i <= Len(flatten_range(args[j]))
            /\ parse_criteria(args[j + 1], flatten_range(args[j])[i])

\* the floats of the numeric values at the matching positions i, i + 1, ...
RECURSIVE MatchedFrom(_, _, _)
MatchedFrom(vals, args, i) ==
    IF i > Len(vals) THEN <<>>
    ELSE (IF all_predicates(args, 2, i) /\ IsNumber(vals[i]) THEN <<ToFloat(vals[i])>> ELSE <<>>)
         \o MatchedFrom(vals, args, i + 1)

IfsArgumentsOk(args) == Len(args) >= 3 /\ Len(args) % 2 = 1

\* _builtin_sumifs
builtin_sumifs(args) ==
    IF ~IfsArgumentsOk(args) THEN Raised
    ELSE Plus(Float(0, 1), SumOf(MatchedFrom(flatten_range(args[1]), args, 1)))

\* _builtin_countifs
builtin_countifs(args) ==
    IF Len(args) < 2 \/ Len(args) % 2 # 0 THEN Raised
    ELSE LET n == Len(flatten_range(args[1]))
         IN Float(Cardinality({i \in 1..n : all_predicates(args, 1, i)}), 1)

\* _builtin_averageifs
builtin_averageifs(args) ==
    IF ~IfsArgumentsOk(args) THEN Raised
    ELSE LET matched == MatchedFrom(flatten_range(args[1]), args, 1)
         IN IF matched = <<>> THEN DIV0
            ELSE Divide(Plus(Float(0, 1), SumOf(matched)), Num(Len(matched)))

\* _builtin_minifs
builtin_minifs(args) ==
    IF ~IfsArgumentsOk(args) THEN Raised
    ELSE LET candidates == MatchedFrom(flatten_range(args[1]), args, 1)
         IN IF candidates = <<>> THEN Float(0, 1) ELSE MinOf(candidates)

\* _builtin_maxifs
builtin_maxifs(args) ==
    IF ~IfsArgumentsOk(args) THEN Raised
    ELSE LET candidates == MatchedFrom(flatten_range(args[1]), args, 1)
         IN IF candidates = <<>> THEN Float(0, 1) ELSE MaxOf(candidates)

\* _eval_function on resolved arguments: func(args), None when it raises
eval_function(func_name, args) ==
    LET result == CASE func_name = "SUM" -> builtin_sum_args(args)
                    [] func_name = "AVERAGE" -> builtin_average(args)
                    [] func_name = "COUNT" -> builtin_count(args)
                    [] func_name = "MIN" -> builtin_min(args)
                    [] func_name = "MAX" -> builtin_max(args)
                    [] func_name = "MOD" -> builtin_mod(args)
                    [] func_name = "SUMIFS" -> builtin_sumifs(args)
                    [] func_name = "COUNTIFS" -> builtin_countifs(args)
                    [] func_name = "AVERAGEIFS" -> builtin_averageifs(args)
                    [] func_name = "MINIFS" -> builtin_minifs(args)
                    [] func_name = "MAXIFS" -> builtin_maxifs(args)
    IN IF result.k = "raise" THEN None ELSE result

\* ---- MOD(x, y)
MaxOperand == 4
ModOperands == {Num(i) : i \in (-MaxOperand)..MaxOperand} \cup {Float(1, 2), Float(-3, 2)}

InitMod ==
    /\ NewEngine
    /\ res \in [op : {"args"}, x : ModOperands, y : ModOperands, out : {None}]

EvalMod ==
    /\ res.op = "args"
    /\ res' = [res EXCEPT !.op = "applied", !.out = eval_function("MOD", <<res.x, res.y>>)]
    /\ EngineUnchanged

SpecMod == InitMod /\ [][EvalMod]_vars

\* ---- SUM, AVERAGE, COUNT, MIN, MAX
Aggregates == {"SUM", "AVERAGE", "COUNT", "MIN", "MAX"}
Scalars == {None, Num(2), Num(-1), Bool(TRUE), Str(<<"2">>), DIV0}
FlatLists == {List(<<>>)} \cup {List(<<v>>) : v \in Scalars} \cup {List(<<v, w>>) : v, w \in Scalars}
NestedLists == {List(<<List(<<v>>), w>>) : v, w \in {Num(2), Bool(TRUE), DIV0}}
Arguments == Scalars \cup FlatLists \cup NestedLists

InitAggregate ==
    /\ NewEngine
    /\ \E func_name \in Aggregates, a \in Arguments, b \in Scalars \cup NestedLists, one \in BOOLEAN :
           res = [op |-> "args", func_name |-> func_name,
                  args |-> IF one THEN <<a>> ELSE <<a, b>>, out |-> None]

EvalAggregate ==
    /\ res.op = "args"
    /\ res' = [res EXCEPT !.op = "applied", !.out = eval_function(res.func_name, res.args)]
    /\ EngineUnchanged

SpecAggregate == InitAggregate /\ [][EvalAggregate]_vars

\* ---- SUMIFS, COUNTIFS, AVERAGEIFS, MINIFS, MAXIFS
IfsFunctions == {"SUMIFS", "COUNTIFS", "AVERAGEIFS", "MINIFS", "MAXIFS"}
Criteria == {Num(1), Str(<<">", "1">>), Str(<<"<", ">", "2">>)}
CriteriaRanges ==
    {List(<<v>>) : v \in {Num(1), Num(2)}} \cup {List(<<v, w>>) : v, w \in {Num(1), Num(2), Num(3)}}
AggregatedRanges == {List(<<v, w>>) : v, w \in {Num(1), Num(3), None}}

InitIfs ==
    /\ NewEngine
    /\ \E func_name \in IfsFunctions, vals \in AggregatedRanges, cv1, cv2 \in CriteriaRanges,
          c1, c2 \in Criteria, pairs \in 1..2 :
           /\ func_name = "COUNTIFS" => vals = List(<<None, None>>)
           /\ pairs = 1 => (cv2 = List(<<Num(1)>>) /\ c2 = Num(1))
           /\ res = [op |-> "args", func_name |-> func_name,
                     args |-> (IF func_name = "COUNTIFS" THEN <<>> ELSE <<vals>>)
                              \o <<cv1, c1>> \o (IF pairs = 2 THEN <<cv2, c2>> ELSE <<>>),
                     out |-> None]

EvalIfs ==
    /\ res.op = "args"
    /\ res' = [res EXCEPT !.op = "applied", !.out = eval_function(res.func_name, res.args)]
    /\ EngineUnchanged

SpecIfs == InitIfs /\ [][EvalIfs]_vars

\* ---------------------------------------------------------------- function registries
\* The dicts of the process are numbered: tables[1] is _BUILTINS, and a registry
\* is the number of the dict its _functions attribute refers to.  A name is the
\* sequence of its characters; a callable is named by a string.
\* str.upper on the letters of the model's names
UpperChar(ch) == CASE ch = "s" -> "S" [] ch = "x" -> "X" [] OTHER -> ch
Upper(chars) == [i \in DOMAIN chars |-> UpperChar(chars[i])]

BUILTINS == [n \in {<<"S">>} |-> "_builtin_sum"]
NoCallable == "None"

\* variant: the registry refers to _BUILTINS itself
registry_init_sharing_builtins(tables) == [tables |-> tables, ref |-> 1]

\* FunctionRegistry.__init__: self._functions = dict(_BUILTINS)
registry_init(tables) == [tables |-> Append(tables, tables[1]), ref |-> Len(tables) + 1]

\* variant: the name is stored as it was written
registry_register_as_written(functions, name, func) == DictSet(functions, name, func)

\* FunctionRegistry.register
registry_register(functions, name, func) == DictSet(functions, Upper(name), func)
\* FunctionRegistry.get
registry_get(functions, name) == DictGet(functions, Upper(name), NoCallable)
\* FunctionRegistry.has
registry_has(functions, name) == Upper(name) \in DOMAIN functions

MaxRegistries == 2
MaxRegisterCalls == 2
Names == {<<"s">>, <<"S">>, <<"x">>, <<"X">>}
Callables == {"f", "g"}

InitRegistry ==
    /\ NewEngine
    /\ res = [op |-> "none", tables |-> <<BUILTINS>>, refs |-> <<>>, registered |-> 0,
              reg |-> 0, name |-> <<>>, func |-> NoCallable, out |-> NoCallable]

\* FunctionRegistry(), also in WorkbookEvaluator.__init__
NewRegistry ==
    /\ Len(res.refs) < MaxRegistries
    /\ LET made == registry_init(res.tables)
       IN res' = [res EXCEPT !.op = "new", !.tables = made.tables,
                             !.refs = Append(res.refs, made.ref), !.reg = Len(res.refs) + 1,
                             !.name = <<>>, !.func = NoCallable, !.out = NoCallable]
    /\ EngineUnchanged

\* registry.register(name, func); out keeps the callable the name had before
Register(reg, name, func) ==
    /\ res.registered < MaxRegisterCalls
    /\ reg \in DOMAIN res.refs
    /\ res' = [res EXCEPT !.op = "register",
                          !.tables[res.refs[reg]] = registry_register(res.tables[res.refs[reg]], name, func),
                          !.registered = res.registered + 1,
                          !.reg = reg, !.name = name, !.func = func,
                          !.out = registry_get(res.tables[res.refs[reg]], name)]
    /\ EngineUnchanged

\* _eval_function(func_name, ...) up to the lookup: None for a name that is absent
CallFunction(reg, name) ==
    /\ reg \in DOMAIN res.refs
    /\ res.op # "call"
    /\ LET func == registry_get(res.tables[res.refs[reg]], Upper(name))
       IN res' = [res EXCEPT !.op = "call", !.reg = reg, !.name = name, !.func = func,
                             !.out = IF func = NoCallable THEN "empty" ELSE "called"]
    /\ EngineUnchanged

NextRegistry ==
    \/ NewRegistry
    \/ \E reg \in 1..MaxRegistries, name \in Names, func \in Callables : Register(reg, name, func)
    \/ \E reg \in 1..MaxRegistries, name \in Names : CallFunction(reg, name)

SpecRegistry == InitRegistry /\ [][NextRegistry]_vars

\* ---------------------------------------------------------------- graph notions
\* (stated from the two mappings, not from the algorithms above)
Reads(c) == DictGet(dependencies, c, {})
ReadBy(c) == DictGet(dependents, c, {})

RECURSIVE ReadsClosure(_, _)
ReadsClosure(frontier, seen) ==
    LET next == UNION {Reads(c) : c \in frontier} \ seen IN
    IF next = {} THEN seen ELSE ReadsClosure(next, seen \cup next)

\* the cells c reads, directly or through other formulas
ReadsPlus(c) == ReadsClosure({c}, {})

RECURSIVE ReadByClosure(_, _)
ReadByClosure(frontier, seen) ==
    LET next == UNION {ReadBy(c) : c \in frontier} \ seen IN
    IF next = {} THEN seen ELSE ReadByClosure(next, seen \cup next)

\* the cells that read a cell of S, directly or through other formulas
ReadByPlus(S) == ReadByClosure(S, {})

FormulaCells == DOMAIN formulas
OnCycle(c) == c \in FormulaCells /\ c \in ReadsPlus(c)
Acyclic == \A c \in FormulaCells : ~OnCycle(c)

SetMax(S) == CHOOSE x \in S : \A y \in S : y <= x

\* formula cells on the longest chain that starts at c and follows reverse edges
RECURSIVE ChainFrom(_)
ChainFrom(c) ==
    LET readers == ReadBy(c) \cap FormulaCells IN
    IF readers = {} THEN 0 ELSE 1 + SetMax({ChainFrom(d) : d \in readers})

LongestChain(roots) == IF roots = {} THEN 0 ELSE SetMax({ChainFrom(r) : r \in roots})

IsSubsequence(s, t) ==
    \E pos \in [DOMAIN s -> DOMAIN t] :
        /\ \A i \in DOMAIN s : t[pos[i]] = s[i]
        /\ \A i, j \in DOMAIN s : i < j => pos[i] < pos[j]

NoDuplicates(s) == \A i, j \in DOMAIN s : s[i] = s[j] => i = j

Stored(c) == DictGet(cell_values, c, None)
CalculateReturned == res.op = "calculate" /\ res.status = "ok"
RecalculateReturned == res.op = "recalculate" /\ res.status = "ok"
OrderComputed == loaded /\ res.op \in {"calculate", "recalculate"}

Perturbed == DOMAIN res.perturbations
Before(c) == DictGet(res.before, c, None)
DeltaRefs == {res.deltas[i].cell_ref : i \in DOMAIN res.deltas}
AfterCalculate == res.prev_op = "calculate" /\ res.prev_status = "ok"

\* ---------------------------------------------------------------- claims

\* C1: after calculate() returns, the value stored for every formula cell equals
\* its formula evaluated against the value store as it stands on return.
C1_FixedPointAfterCalculate ==
    CalculateReturned =>
        \A c \in FormulaCells : Stored(c) = evaluate_formula(cell_values, formulas[c])

\* the same for the formula cells whose formula is not an OFFSET call
C1_FixedPointOfStaticFormulas ==
    CalculateReturned =>
        \A c \in FormulaCells :
            formulas[c].op # "offset" => Stored(c) = evaluate_formula(cell_values, formulas[c])

BehindCycle(c) == c \in FormulaCells /\ \E d \in ReadsPlus(c) \cup {c} : OnCycle(d)

C4_ForwardReverseConsistent ==
    \A u, v \in Cells : (v \in Reads(u)) <=> (u \in ReadBy(v))

\* the direction add_formula does keep
C4_ForwardImpliesReverse ==
    \A u, v \in Cells : (v \in Reads(u)) => (u \in ReadBy(v))

\* C5: the cell refs of the deltas recalculate returns are among
\* affected_cells(keys of P), which are among the formula cells; no delta is
\* reported for a literal cell or for a formula cell that reads no perturbed cell.
C5_DeltasWithinAffected ==
    RecalculateReturned =>
        LET affected == Range(affected_cells(Graph, Perturbed, hash_order).cells) IN
        /\ DeltaRefs \subseteq affected
        /\ affected \subseteq FormulaCells
        /\ \A c \in DeltaRefs : c \in FormulaCells /\ ReadsPlus(c) \cap Perturbed # {}

C5_Witness ==
    /\ RecalculateReturned
    /\ DeltaRefs # {}
    /\ \E c \in FormulaCells \ DeltaRefs : ReadsPlus(c) \cap Perturbed = {}
    /\ Cells \ (FormulaCells \cup Perturbed) # {}

\* C6 as claimed: affected_cells(S) returns exactly the formula cells that read a
\* cell of S, directly or through reverse edges, each once, as a subsequence of
\* topological_order().
C6_AffectedAreAllReaders ==
    RecalculateReturned =>
        /\ Range(res.affected) = ReadByPlus(Perturbed) \cap FormulaCells
        /\ NoDuplicates(res.affected)
        /\ IsSubsequence(res.affected, topological_order(Graph, hash_order).order)

\* C6 as amended: affected_cells(S) returns exactly the formula cells outside S
\* that read a cell of S, directly or through reverse edges, each once, as a
\* subsequence of topological_order(); it is empty when no formula reads S.
C6_AffectedAreReadersOutsideS ==
    RecalculateReturned =>
        /\ Range(res.affected) = (ReadByPlus(Perturbed) \cap FormulaCells) \ Perturbed
        /\ NoDuplicates(res.affected)
        /\ IsSubsequence(res.affected, topological_order(Graph, hash_order).order)
        /\ (\A r \in Perturbed : ReadBy(r) = {}) => res.affected = <<>>

C6_Witness ==
    /\ RecalculateReturned
    /\ Perturbed \cap FormulaCells \cap ReadByPlus(Perturbed) # {}
    /\ res.affected # <<>>

Differ(old, new, tolerance) ==
    CASE old = None /\ new = None -> FALSE
      [] (old = None) # (new = None) -> TRUE
      [] old.k = "num" /\ new.k = "num" -> Abs(old.n - new.n) > tolerance
      [] OTHER -> old # new

DeltasAreTheDiffering ==
    /\ DeltaRefs = {c \in Range(res.affected) : Differ(Before(c), Stored(c), res.tolerance)}
    /\ \A i \in DOMAIN res.deltas :
           /\ res.deltas[i].old_value = Before(res.deltas[i].cell_ref)
           /\ res.deltas[i].new_value = Stored(res.deltas[i].cell_ref)
    /\ res.propagated_cells = Len(res.deltas)

\* C8: recalculate records a delta for an affected cell iff values_differ(old,
\* new, tolerance), propagated_cells is the number of deltas, and after
\* calculate() perturbing a cell to the value it holds yields no deltas.
C8_DeltaIffValuesDiffer ==
    RecalculateReturned =>
        /\ DeltasAreTheDiffering
        /\ (AfterCalculate /\ \A c \in Perturbed : Before(c) = res.perturbations[c])
               => res.deltas = <<>>

\* the part of C8 that does not rest on calculate() leaving a fixed point
C8_DeltasAreTheDiffering == RecalculateReturned => DeltasAreTheDiffering

\* C9: calculate() called twice in succession returns the same value for every
\* formula cell.
C9_CalculateTwiceIdentical ==
    (CalculateReturned /\ AfterCalculate) =>
        \A c \in FormulaCells : res.results[c] = Before(c)

\* C10: the order topological_order() and affected_cells() return is a function of
\* the graph alone: it does not depend on the iteration order of a set.
C10_OrderIsFunctionOfGraph ==
    (OrderComputed /\ res.status = "ok") =>
        \A p \in Perms(Cells) :
            /\ topological_order(Graph, p).order = res.order
            /\ res.op = "recalculate" => affected_cells(Graph, Perturbed, p).cells = res.affected

\* what does hold of C10: within one process the order is the same on every call
C10_SameOrderWithinProcess ==
    [][(OrderComputed /\ res.status = "ok" /\ res'.op \in {"calculate", "recalculate"})
           => res'.order = res.order]_vars

\* a step that is a call of calculate or recalculate
EngineCall == calls' = calls + 1 /\ res'.op \in {"calculate", "recalculate"}

\* C11: calculate() and recalculate() on an engine on which load() has not
\* completed fail with the not-loaded error and leave the value store and the
\* graph unchanged; once load() has completed, _loaded stays set and neither call
\* fails with the not-loaded error.
C11_NotLoadedError ==
    [][/\ loaded => loaded'
       /\ (EngineCall /\ ~loaded) =>
              /\ res'.status = "not_loaded"
              /\ cell_values' = cell_values
              /\ dependencies' = dependencies
              /\ dependents' = dependents
              /\ formulas' = formulas
       /\ (EngineCall /\ loaded) => res'.status # "not_loaded"]_vars

C11_Witness ==
    /\ res.op = "recalculate"
    /\ res.status = "not_loaded"
    /\ DOMAIN res.perturbations # {}
    /\ cell_values = EmptyDict

NonEvaluable == {c \in FormulaCells : formulas[c].op \in {"unknown", "badrange"}}

C12_Statement ==
    /\ res.status = "ok"
    /\ \A c \in NonEvaluable : Stored(c) = None
    /\ \A c \in FormulaCells \ NonEvaluable :
           ReadsPlus(c) \cap NonEvaluable = {}
               => Stored(c) = evaluate_formula(cell_values, formulas[c])

\* C12: on an acyclic workbook calculate() always completes; a formula that cannot
\* be evaluated (unknown function, malformed range argument) resolves to empty for
\* its cell only, and every formula cell that reads no such cell, directly or not,
\* has the value of its formula over the cells it reads.
C12_BadFormulaNeverAborts ==
    (loaded /\ res.op = "calculate" /\ Acyclic) => C12_Statement

\* the same for workbooks whose non-evaluable formulas are unknown functions
C12_UnknownFunctionNeverAborts ==
    (loaded /\ res.op = "calculate" /\ Acyclic
        /\ \A c \in FormulaCells : formulas[c].op # "badrange") => C12_Statement

\* what load(view) is to leave behind
LoadedFrom(view) ==
    /\ loaded'
    /\ res'.status = "ok"
    /\ DOMAIN cell_values' = {c \in Cells : view[c] # None}
    /\ \A c \in DOMAIN cell_values' : cell_values'[c] = view[c]
    /\ DOMAIN formulas' = {c \in Cells : view[c].k = "text"}
    /\ \A c \in DOMAIN formulas' :
           /\ formulas'[c] = view[c].f
           /\ c \in DOMAIN dependencies'
           /\ dependencies'[c] = Range(all_references(view[c].f))
    /\ DOMAIN dependencies' = DOMAIN formulas'
    /\ \A u, v \in Cells :
           (v \in DOMAIN dependents' /\ u \in dependents'[v])
               <=> (u \in DOMAIN formulas' /\ v \in Range(all_references(view[u].f)))

C14_ErrorOperandPropagates ==
    (res.op = "applied" /\ (is_error(res.left) \/ is_error(res.right))) =>
        /\ is_error(res.out)
        /\ res.out = IF is_error(res.left) THEN res.left ELSE res.right

C14_Witness ==
    /\ res.op = "applied"
    /\ res.operator \in ComparisonOperators
    /\ is_error(res.left)
    /\ is_error(res.right)
    /\ res.left # res.right
    /\ res.out = res.left

\* C15: every RecalcResult has 0 <= propagated_cells <= total_formula_cells,
\* total_formula_cells is the number of formula cells, propagation_ratio is
\* propagated_cells / total_formula_cells, or 0 without formula cells; without
\* formula cells a recalculation has no deltas.
C15_RecalcResultCounts ==
    RecalculateReturned =>
        LET ratio == propagation_ratio(res) IN
        /\ 0 <= res.propagated_cells
        /\ res.propagated_cells <= res.total_formula_cells
        /\ res.total_formula_cells = Cardinality(FormulaCells)
        /\ ratio.k = "float"
        /\ Denominator(ratio) > 0
        /\ Numerator(ratio) * res.total_formula_cells = Denominator(ratio) * res.propagated_cells
        /\ FormulaCells = {} => (res.deltas = <<>> /\ Numerator(ratio) = 0)

C15_Witness ==
    /\ RecalculateReturned
    /\ 0 < res.propagated_cells
    /\ res.propagated_cells < res.total_formula_cells
    /\ res.propagated_cells < Len(res.affected)

\* the value of one operator on two values
Apply(op, x, y) == IF op \in ArithmeticOperators THEN binary_op(x, op, y) ELSE compare(x, y, op)
Level(op) == IF op \in ComparisonOperators THEN 1 ELSE IF op \in {"+", "-", "&"} THEN 2 ELSE 3
ValueOf(lit) == Num(DigitValue(lit))
Grouped(r) ==
    LET a == ValueOf(r.a)
        b == ValueOf(r.b)
        c == ValueOf(r.c)
        to_left == Apply(r.op2, Apply(r.op1, a, b), c)
        to_right == Apply(r.op1, a, Apply(r.op2, b, c))
    IN CASE r.shape = "a.b.c" -> IF Level(r.op2) > Level(r.op1) THEN to_right ELSE to_left
         [] r.shape = "(a.b).c" -> to_left
         [] r.shape = "a.(b.c)" -> to_right
         [] r.shape = "a.-b" -> Apply(r.op1, a, Negate(b))

\* C16: comparison binds loosest, then + - &, then * /; operators of one level
\* group from the left; parentheses override; a + or - with no left operand is
\* unary: a+b*c = a+(b*c), a-b-c = (a-b)-c, a/b/c = (a/b)/c, a*-b = a*(-b).
C16_PrecedenceAndAssociativity ==
    res.op = "evaluated" => res.out = Grouped(res)

\* the same, away from a unary minus that follows &
C16_ExceptUnaryAfterConcat ==
    (res.op = "evaluated" /\ ~(res.shape = "a.-b" /\ res.op1 = "&")) => res.out = Grouped(res)

\* the written sheet name followed by "!", or nothing
SheetOf(r) == SelectSeq(r.sheet, LAMBDA ch : ch # "'")
Swapped(r) == [r EXCEPT !.row1 = r.row2, !.row2 = r.row1, !.col1 = r.col2, !.col2 = r.col1]
Mirrored(r) == [r EXCEPT !.col1 = r.col2, !.col2 = r.col1]

\* C17: expand_range lists every cell of the rectangle spanned by the corners
\* once, rows ascending and columns ascending within a row, so rows x columns
\* refs, whatever the order or orientation of the corners; each ref carries the
\* sheet prefix of the range when there is one.
C17_RowMajorRectangle ==
    res.op = "expanded" =>
        LET top == Min2(res.row1, res.row2)
            first == Min2(res.col1, res.col2)
            rows == Abs(res.row1 - res.row2) + 1
            columns == Abs(res.col1 - res.col2) + 1
        IN /\ Len(res.out) = rows * columns
           /\ \A k \in 1..(rows * columns) :
                 res.out[k] = SheetOf(res) \o <<Alphabet[first + ((k - 1) % columns)],
                                                Digits[top + ((k - 1) \div columns) + 1]>>
           /\ \A k, l \in DOMAIN res.out : res.out[k] = res.out[l] => k = l
           /\ res.out = expand_range_ref(RangeText(Swapped(res)))
           /\ res.out = expand_range_ref(RangeText(Mirrored(res)))

C17_Witness ==
    /\ res.op = "expanded"
    /\ res.row1 > res.row2
    /\ res.col1 < res.col2
    /\ res.sheet # <<>>
    /\ Len(res.out) = 6

\* C18: a date from 1900 on other than 29 February 1900 comes back from its
\* serial; 1 January 1900 has serial 1 and 1 March 1900 serial 61; serial 60 is
\* read as 29 February 1900.
C18_DateSerialRoundTrip ==
    /\ (res.op = "round_trip" /\ res.date # <<1900, 2, 29>>) => res.out = res.date
    /\ (res.op = "round_trip" /\ res.date = <<1900, 1, 1>>) => res.serial = 1
    /\ (res.op = "round_trip" /\ res.date = <<1900, 3, 1>>) => res.serial = 61
    /\ (res.op = "from_serial" /\ res.serial = 60) => res.out = <<1900, 2, 29>>

C18_Witness ==
    /\ res.op = "round_trip"
    /\ res.date = <<1904, 2, 29>>
    /\ res.serial > 61
    /\ res.out = res.date

Sign(v) == IF Numerator(v) > 0 THEN 1 ELSE IF Numerator(v) < 0 THEN -1 ELSE 0
\* v = x - y * q for the integer q with q <= x / y < q + 1
IsModOf(v, x, y) ==
    \E q \in (-4 * MaxOperand)..(4 * MaxOperand) :
        /\ ~LessThan(Divide(x, y), Num(q))
        /\ LessThan(Divide(x, y), Num(q + 1))
        /\ SameNumber(v, Minus(x, Times(y, Num(q))))

\* the same for a divisor that is not zero
C19_ModOfNonZeroDivisor ==
    (res.op = "applied" /\ Numerator(res.y) # 0) =>
        /\ IsNumber(res.out)
        /\ IsModOf(res.out, res.x, res.y)
        /\ Sign(res.out) \in {0, Sign(res.y)}

\* C19: MOD(x, y) is x - y * floor(x / y) for y # 0, zero or of the sign of y;
\* MOD(x, 0) is the error value #DIV/0!.
C19_ModSignAndZeroDivisor ==
    /\ C19_ModOfNonZeroDivisor
    /\ (res.op = "applied" /\ Numerator(res.y) = 0) => res.out = DIV0

\* the values of an input, lists opened, in order
RECURSIVE LeafList(_)
LeafList(values) ==
    IF values = <<>> THEN <<>>
    ELSE (IF Head(values).k = "list" THEN LeafList(Head(values).n) ELSE <<Head(values)>>)
         \o LeafList(Tail(values))
IsCounted(v) == v.k \in {"num", "float", "bool"}
Counted(values) == SelectSeq(LeafList(values), IsCounted)
\* the total of whole numbers, a boolean as 1 or 0
RECURSIVE IntTotal(_)
IntTotal(nums) == IF nums = <<>> THEN 0 ELSE Head(nums).n + IntTotal(Tail(nums))
IsValue(out, p, q) == IsNumber(out) /\ Numerator(out) * q = p * Denominator(out)

\* what SUM, COUNT, MIN, MAX and AVERAGE of numeric values give
AggregateOfCounted(r) ==
    LET nums == Counted(r.args)
        n == Len(nums)
    IN /\ r.func_name = "SUM" => IsValue(r.out, IntTotal(nums), 1)
       /\ r.func_name = "COUNT" => IsValue(r.out, n, 1)
       /\ (r.func_name = "AVERAGE" /\ n > 0) => IsValue(r.out, IntTotal(nums), n)
       /\ (r.func_name = "MIN" /\ n > 0) =>
              /\ \E i \in 1..n : IsValue(r.out, nums[i].n, 1)
              /\ \A i \in 1..n : ~LessThan(nums[i], r.out)
       /\ (r.func_name = "MAX" /\ n > 0) =>
              /\ \E i \in 1..n : IsValue(r.out, nums[i].n, 1)
              /\ \A i \in 1..n : ~LessThan(r.out, nums[i])
       /\ (r.func_name \in {"MIN", "MAX"} /\ n = 0) => IsValue(r.out, 0, 1)

PairsOf(r) ==
    LET first == IF r.func_name = "COUNTIFS" THEN 1 ELSE 2
    IN {<<r.args[j].n, r.args[j + 1]>> : j \in {k \in first..(Len(r.args) - 1) : (k - first) % 2 = 0}}
\* position i matches: every pair's range has position i and its value satisfies the criterion
Matches(r, i) == \A pr \in PairsOf(r) : i <= Len(pr[1]) /\ parse_criteria(pr[2], pr[1][i])
\* the matching positions of the aggregated range that hold a number
Contributing(r) == {i \in DOMAIN r.args[1].n : Matches(r, i) /\ IsNumber(r.args[1].n[i])}
RECURSIVE TotalAt(_, _)
TotalAt(vals, positions) ==
    IF positions = {} THEN 0
    ELSE LET i == CHOOSE k \in positions : TRUE IN vals[i].n + TotalAt(vals, positions \ {i})

\* C21: SUMIFS, AVERAGEIFS, MINIFS and MAXIFS aggregate the positions of their
\* first argument at which every (criteria range, criterion) pair holds, a range
\* without that position not matching; COUNTIFS counts the positions where all
\* pairs hold; without a match MINIFS and MAXIFS give 0 and AVERAGEIFS #DIV/0!.
C21_AllPairsSelectPositions ==
    res.op = "applied" =>
        LET vals == res.args[1].n
            at == Contributing(res)
        IN /\ res.func_name = "SUMIFS" => IsValue(res.out, TotalAt(vals, at), 1)
           /\ res.func_name = "COUNTIFS" =>
                  IsValue(res.out, Cardinality({i \in DOMAIN vals : Matches(res, i)}), 1)
           /\ (res.func_name = "AVERAGEIFS" /\ at # {}) =>
                  IsValue(res.out, TotalAt(vals, at), Cardinality(at))
           /\ (res.func_name = "AVERAGEIFS" /\ at = {}) => res.out = DIV0
           /\ (res.func_name \in {"MINIFS", "MAXIFS"} /\ at = {}) => IsValue(res.out, 0, 1)
           /\ (res.func_name = "MINIFS" /\ at # {}) =>
                  \E i \in at : IsValue(res.out, vals[i].n, 1) /\ \A k \in at : vals[i].n <= vals[k].n
           /\ (res.func_name = "MAXIFS" /\ at # {}) =>
                  \E i \in at : IsValue(res.out, vals[i].n, 1) /\ \A k \in at : vals[i].n >= vals[k].n

C21_Witness ==
    /\ res.op = "applied"
    /\ res.func_name = "SUMIFS"
    /\ Len(res.args) = 5
    /\ Len(res.args[4].n) < Len(res.args[1].n)
    /\ Contributing(res) # {}
    /\ \E i \in DOMAIN res.args[2].n : parse_criteria(res.args[3], res.args[2].n[i]) /\ ~Matches(res, i)

\* the dict of registry reg in a state's record
FunctionsOf(r, reg) == r.tables[r.refs[reg]]
SameIgnoringCase(n, m) == Upper(n) = Upper(m)

C30_RegistriesIsolated ==
    [][/\ res'.tables[1] = BUILTINS
       /\ res'.op = "register" =>
             \A other \in DOMAIN res.refs : other # res'.reg =>
                 FunctionsOf(res', other) = FunctionsOf(res, other)
       /\ res'.op = "new" =>
             /\ FunctionsOf(res', res'.reg) = BUILTINS
             /\ \A other \in DOMAIN res.refs : FunctionsOf(res', other) = FunctionsOf(res, other)]_vars

C30_Witness ==
    /\ res.op = "new"
    /\ res.reg = 2
    /\ res.registered > 0
    /\ FunctionsOf(res, 1) # BUILTINS
    /\ FunctionsOf(res, 2) = BUILTINS

\* the store a full calculate() leaves when the inputs of P are overwritten first
Overwritten(store, perturbations) ==
    [x \in DOMAIN store \cup DOMAIN perturbations |->
        IF x \in DOMAIN perturbations THEN perturbations[x] ELSE store[x]]
FullCalculate(store) ==
    EvaluateInOrder(topological_order(Graph, hash_order).order, store, formulas)
IncrementalIsFull == cell_values = FullCalculate(Overwritten(res.before, res.perturbations))

\* C23: after calculate(), recalculate(P) with P over cells that hold no formula
\* leaves the store that overwriting the inputs with P and a full calculate() gives.
C23_IncrementalAgreesWithFull ==
    (RecalculateReturned /\ AfterCalculate /\ Perturbed \cap FormulaCells = {}) => IncrementalIsFull

\* the same for workbooks without an OFFSET call
C23_IncrementalAgreesWithoutOffset ==
    (/\ RecalculateReturned
     /\ AfterCalculate
     /\ Perturbed \cap FormulaCells = {}
     /\ \A c \in FormulaCells : formulas[c].op # "offset") => IncrementalIsFull


\* the entry a store holds for a cell: whether the key is there, and its value
Entry(store, c) == [present |-> c \in DOMAIN store, value |-> DictGet(store, c, None)]
Changed == {c \in DOMAIN cell_values \cup DOMAIN cell_values' :
                Entry(cell_values', c) # Entry(cell_values, c)}
\* the formula cells that read a cell of S, directly or through other formulas
AffectedBy(S) == (ReadByPlus(S) \ S) \cap FormulaCells

\* C24: calculate() changes only the store entries of formula cells, and
\* recalculate(P) only those of the cells of P and of affected_cells(keys of P);
\* the formula texts and both edge mappings stay as they are.
C24_Frame ==
    [][EngineCall =>
          /\ UNCHANGED <<formulas, dependencies, dependents>>
          /\ res'.op = "calculate" => Changed \subseteq FormulaCells
          /\ res'.op = "recalculate" =>
                 Changed \subseteq DOMAIN res'.perturbations \cup AffectedBy(DOMAIN res'.perturbations)]_vars

\* a recalculate changed a perturbed input and a formula that reads it, and left
\* the entry of another cell as it was
C24_Witness ==
    /\ RecalculateReturned
    /\ \E p \in Perturbed \ FormulaCells : Stored(p) # Before(p)
    /\ \E c \in AffectedBy(Perturbed) : Stored(c) # Before(c)
    /\ \E c \in DOMAIN res.before \ (Perturbed \cup AffectedBy(Perturbed)) :
           Entry(cell_values, c) = Entry(res.before, c)


AfterRecalculate == res.op = "recalculate" /\ res.status = "ok"

\* C25: a recalculate that follows a recalculate starts from the store the
\* earlier call left: the old_value of each delta is the value that call left,
\* and the earlier perturbations stay in the store where the later call writes
\* nothing.
C25_PerturbationsAccumulate ==
    [][(AfterRecalculate /\ EngineCall /\ res'.status = "ok") =>
          /\ res'.before = cell_values
          /\ \A i \in DOMAIN res'.deltas :
                 res'.deltas[i].old_value = Stored(res'.deltas[i].cell_ref)
          /\ \A c \in Perturbed \ (DOMAIN res'.perturbations
                                    \cup AffectedBy(DOMAIN res'.perturbations)) :
                 DictGet(cell_values', c, None) = res.perturbations[c]]_vars

\* a second recalculate reports a delta away from the value the first
\* perturbation gave: no workbook of literals 1 and references holds a 2
C25_Witness ==
    /\ RecalculateReturned
    /\ res.prev_op = "recalculate" /\ res.prev_status = "ok"
    /\ \E i \in DOMAIN res.deltas :
           /\ res.deltas[i].old_value = Num(MaxValue)
           /\ res.deltas[i].new_value = Num(1)
    /\ \E c \in Cells \ (Perturbed \cup AffectedBy(Perturbed)) : Stored(c) = Num(MaxValue)


CalculateFailedCircular == res.op = "calculate" /\ res.status = "circular"

\* C26: when calculate() fails with the circular-reference error, no formula has
\* been evaluated: the value store is the one the call found.
C26_CircularCalculateKeepsStore == CalculateFailedCircular => cell_values = res.before

\* the failed call left unevaluated a formula that reads no cell of a cycle
C26_Witness ==
    /\ CalculateFailedCircular
    /\ \E c \in FormulaCells :
           /\ \A d \in ReadsPlus(c) \cup {c} : ~OnCycle(d)
           /\ Stored(c) = Text(formulas[c])


RecalculateFailedCircular == res.op = "recalculate" /\ res.status = "circular"

\* C27: recalculate(P) on a graph with a cycle fails with the circular-reference
\* error of affected_cells: no formula cell is re-evaluated and max_depth is not
\* called, but the store already holds the values of P.
C27_CircularRecalculateKeepsPerturbations ==
    (res.op = "recalculate" /\ ~Acyclic) =>
        /\ RecalculateFailedCircular
        /\ cell_values = Overwritten(res.before, res.perturbations)
        /\ res.deltas = <<>>
        /\ res.max_depth_calls = 0

\* the failed call overwrote an input and left a formula that reads it, and that
\* is on no cycle, as it was
C27_Witness ==
    /\ RecalculateFailedCircular
    /\ \E p \in Perturbed \ FormulaCells :
           /\ Stored(p) # Before(p)
           /\ \E c \in AffectedBy({p}) :
                  /\ ~OnCycle(c)
                  /\ Stored(c) = Text(formulas[c])


QueryMade == res.op \in {"topological_order", "affected_cells", "max_depth"}
\* the bound each loop keeps when no cell enters its queue twice
TerminatesWithinBounds ==
    /\ res.status # "diverged"
    /\ res.op = "topological_order" => res.iterations <= Cardinality(FormulaCells)
    /\ res.op = "affected_cells" => res.iterations <= Cardinality(res.roots \cup FormulaCells)
    /\ res.op = "max_depth" => res.max_chain_depth <= Cardinality(FormulaCells)

\* C28: topological_order() and affected_cells() terminate on every graph, and
\* max_depth(roots) terminates on every acyclic graph, with a result no greater
\* than the number of formula cells.
C28_GraphQueriesTerminate ==
    (QueryMade /\ (res.op = "max_depth" => Acyclic)) => TerminatesWithinBounds

\* the same on the graphs whose two mappings agree
C28_QueriesTerminateOnConsistentGraphs ==
    (QueryMade /\ C4_ForwardReverseConsistent /\ (res.op = "max_depth" => Acyclic))
        => TerminatesWithinBounds


PerturbedFormulaCells == Perturbed \cap FormulaCells
\* the formula cells outside P that read c directly
ReadersOutsideP(c) == (ReadBy(c) \cap FormulaCells) \ Perturbed

\* C29: a perturbed cell that holds a formula is not re-evaluated by that
\* recalculate and is in none of its deltas, also when it reads another perturbed
\* cell: it is left holding the perturbation value, and the formula cells that
\* read it are re-evaluated against that value.
C29_PerturbedFormulaKeepsPerturbation ==
    RecalculateReturned =>
        \A c \in PerturbedFormulaCells :
            /\ c \notin Range(res.affected)
            /\ c \notin DeltaRefs
            /\ Stored(c) = res.perturbations[c]
            /\ \A d \in ReadersOutsideP(c) :
                   /\ d \in Range(res.affected)
                   /\ formulas[d].op # "offset" =>
                          Stored(d) = evaluate_formula(cell_values, formulas[d])

\* a perturbed formula cell reads another perturbed cell, and a formula that
\* reads it went from another value to the perturbation value
C29_Witness ==
    /\ RecalculateReturned
    /\ \E c \in PerturbedFormulaCells :
           /\ Reads(c) \cap Perturbed # {}
           /\ Before(c) # res.perturbations[c]
           /\ \E d \in ReadersOutsideP(c) :
                  /\ formulas[d] = RefF(c)
                  /\ Stored(d) = res.perturbations[c]
                  /\ d \in DeltaRefs

====
